---------------------------- MODULE Spec2Model ----------------------------
(***************************************************************************)
(* A model of CFileSystem (src/src/filesystem/CFileSystem.cpp): the search *)
(* path registry, the resolver (Open / OpenFromCacheForRead), the file     *)
(* handle operations on archive views, and the wildcard find cursors.      *)
(*                                                                         *)
(* C strings are sequences of one-character strings; the null pointer is   *)
(* NullStr.  Path IDs are only ever compared with strcmp and are kept as   *)
(* atomic strings; the null path ID is NullID.  A FILE pointer is an index *)
(* into `streams` (0 is the null one).  A FileHandle_t is the address of a *)
(* CFileHandle (0 is FILESYSTEM_INVALID_HANDLE).                           *)
(***************************************************************************)
EXTENDS Integers, Sequences, FiniteSets, TLC

VARIABLES
    preferred_separator, \* fs::path::preferred_separator of the build
    m_SearchPaths,       \* std::vector<std::unique_ptr<CSearchPath>>
    m_OpenedFiles,       \* std::vector<std::unique_ptr<CFileHandle>>
    m_FindFiles,         \* std::vector<std::unique_ptr<FindFileData>>
    streams,             \* the C runtime's FILE objects
    disk,                \* regular files of the host file system
    last                 \* the last call: its arguments and what it returned

vars == <<preferred_separator, m_SearchPaths, m_OpenedFiles, m_FindFiles,
          streams, disk, last>>

-----------------------------------------------------------------------------
(* Bounds of the model *)

\* The FILE objects the runtime can hand out.
MaxStreams == 4

-----------------------------------------------------------------------------
(* Strings *)

NullStr == <<"nullptr">>
NullID == "nullptr"
FILESYSTEM_INVALID_HANDLE == 0
FILESYSTEM_INVALID_FIND_HANDLE == 0 - 1

Min(a, b) == IF a < b THEN a ELSE b
Max(a, b) == IF a > b THEN a ELSE b

Str1(a) == <<a>>
Str3(a, b, c) == <<a, b, c>>

tolower(c) ==
    CASE c = "A" -> "a"
      [] c = "B" -> "b"
      [] c = "P" -> "p"
      [] OTHER -> c

ToLowerStr(s) == [i \in DOMAIN s |-> tolower(s[i])]

\* stricmp( a, b ) == 0
stricmp_eq(a, b) == ToLowerStr(a) = ToLowerStr(b)

\* strstr( hay, needle ) != nullptr
strstr(hay, needle) ==
    \E i \in 1..(Len(hay) + 1) :
        /\ i + Len(needle) - 1 <= Len(hay)
        /\ SubSeq(hay, i, i + Len(needle) - 1) = needle

BspExt == <<".", "b", "s", "p">>

IsSeparator(c) == c = "/" \/ (preferred_separator = "\\" /\ c = "\\")

\* fs::path::make_preferred: every directory separator becomes the preferred
\* one (a no-op where "/" is preferred, "/" -> "\" where "\" is).
make_preferred(s) ==
    [i \in DOMAIN s |-> IF IsSeparator(s[i]) THEN preferred_separator ELSE s[i]]

\* fs::path( a ) / b of std::experimental::filesystem: appends b, with a
\* preferred separator between the two unless one is already there.
PathAppend(a, b) ==
    IF a = <<>> \/ b = <<>> \/ IsSeparator(a[Len(a)]) \/ IsSeparator(b[1])
    THEN a \o b
    ELSE a \o <<preferred_separator>> \o b

\* The host file system's name of a path: separators do not distinguish names.
OsName(s) == [i \in DOMAIN s |-> IF IsSeparator(s[i]) THEN "/" ELSE s[i]]

-----------------------------------------------------------------------------
(* The host: directories, regular files and pack files *)

\* Directories that exist on the host (OsName form); "e" is empty and holds
\* no file.  Regular files live in the variable `disk`.  A relative name with
\* no directory is a file of the working directory.
DirAS == Str3("a", "/", "s")
HostDirs == {Str1("a"), Str1("b"), Str1("e"), DirAS}

FileMT == Str3("m", ".", "t")
FileNL == Str3("n", ".", "l")

\* Every regular file the model can hold, in the order a
\* recursive_directory_iterator of its directory visits them.
HostFileOrder ==
    << <<"a", "/">> \o FileMT, <<"a", "/">> \o FileNL,
       <<"b", "/">> \o FileMT, <<"b", "/">> \o FileNL,
       FileMT, FileNL >>

InitialDisk ==
    { <<"a", "/">> \o FileMT, <<"a", "/">> \o FileNL, <<"b", "/">> \o FileMT,
      Str1("p"), Str1("q") }

\* The pack files of the host, by OsName: the directory of a pack lists
\* (name, filepos, filelen) records; `size` is the length of the pack file.
\* In "p" the entry s/a is followed by more data, in "q" it ends the file.
EntrySA == Str3("s", "/", "a")

PackImage(osname) ==
    CASE osname = Str1("p") ->
            [ident |-> "PACK_32BIT", size |-> 13, dirofs |-> 7, dirlen |-> 6,
             dir |-> << [szFileName |-> EntrySA, filepos |-> 2, filelen |-> 3],
                        [szFileName |-> Str1("b"), filepos |-> 5, filelen |-> 2],
                        [szFileName |-> Str1("z"), filepos |-> 7, filelen |-> 0] >>]
      [] osname = Str1("q") ->
            [ident |-> "PACK_64BIT", size |-> 7, dirofs |-> 1, dirlen |-> 3,
             dir |-> << [szFileName |-> EntrySA, filepos |-> 4, filelen |-> 3] >>]
      [] osname = Str1("u") ->   \* a directory length that is no multiple of 2
            [ident |-> "PACK_32BIT", size |-> 5, dirofs |-> 2, dirlen |-> 3,
             dir |-> << [szFileName |-> Str1("b"), filepos |-> 1, filelen |-> 1] >>]
      [] osname = Str1("v") ->   \* more records than MAX_FILES
            [ident |-> "PACK_32BIT", size |-> 9, dirofs |-> 1, dirlen |-> 8,
             dir |-> [i \in 1..4 |->
                        [szFileName |-> Str1("b"), filepos |-> 1, filelen |-> 0]]]
      [] osname = Str1("w") ->   \* a directory that runs past the end of the file
            [ident |-> "PACK_32BIT", size |-> 4, dirofs |-> 2, dirlen |-> 4,
             dir |-> << [szFileName |-> Str1("b"), filepos |-> 1, filelen |-> 1] >>]
      [] osname = Str1("y") ->   \* an empty file
            [ident |-> "NOT_A_PACK", size |-> 0, dirofs |-> 0, dirlen |-> 0,
             dir |-> << >>]
      [] OTHER ->
            [ident |-> "NOT_A_PACK", size |-> 1, dirofs |-> 0, dirlen |-> 0,
             dir |-> << >>]

-----------------------------------------------------------------------------
(* FILE objects *)

StreamIds == 1..MaxStreams

ClosedStream == [open |-> FALSE, pos |-> 0, size |-> 0, err |-> FALSE]

FreeStreams(st) == {i \in StreamIds : ~st[i].open}

\* The FILE a successful fopen returns: the lowest free slot.
NewStream(st) == CHOOSE i \in FreeStreams(st) : \A j \in FreeStreams(st) : i <= j

\* fopen modes that create the file: "w..." and "a...".
FopenCreates(pOptions) == strstr(pOptions, Str1("w")) \/ strstr(pOptions, Str1("a"))

HostFiles == {HostFileOrder[i] : i \in DOMAIN HostFileOrder}

\* fopen( path, options ) != nullptr: "r" needs the file on disk; "w" and "a"
\* create it when its directory exists and can hold it.
fopen_ok(d, path, pOptions) ==
    IF FopenCreates(pOptions)
    THEN OsName(path) \in HostFiles
    ELSE OsName(path) \in d

FileSizeOf(osname) == PackImage(osname).size

-----------------------------------------------------------------------------
(* The search path registry *)

READ_ONLY == "READ_ONLY"
IS_PACK_FILE == "IS_PACK_FILE"

\* CFileSystem::FindSearchPath: the index of the first match, Len + 1 for end().
RECURSIVE FindSearchPathFrom(_, _, _, _, _)
FindSearchPathFrom(paths, it, pszPath, bCheckPathID, pszPathID) ==
    IF it > Len(paths) THEN Len(paths) + 1
    ELSE IF /\ stricmp_eq(pszPath, paths[it].szPath)
            /\ \/ ~bCheckPathID
               \/ (pszPathID = NullID /\ paths[it].pszPathID = NullID)
               \/ (/\ pszPathID # NullID
                   /\ paths[it].pszPathID # NullID
                   /\ pszPathID = paths[it].pszPathID)
         THEN it
         ELSE FindSearchPathFrom(paths, it + 1, pszPath, bCheckPathID, pszPathID)

FindSearchPath(paths, pszPath, bCheckPathID, pszPathID) ==
    FindSearchPathFrom(paths, 1, pszPath, bCheckPathID, pszPathID)

\* std::vector::erase( it )
Erase(seq, it) == SubSeq(seq, 1, it - 1) \o SubSeq(seq, it + 1, Len(seq))

\* std::vector::emplace_back
EmplaceBack(seq, x) == Append(seq, x)

NewSearchPath(szPath, pathID, flags, packFile, packEntries) ==
    [szPath |-> szPath, pszPathID |-> pathID, flags |-> flags,
     packFile |-> packFile, packEntries |-> packEntries]

\* CFileSystem::AddSearchPath( pPath, pathID, bReadOnly ): [ret, paths]
AddSearchPathResult(paths, pPath, pathID, bReadOnly) ==
    IF pPath = NullStr THEN [ret |-> FALSE, paths |-> paths]
    ELSE IF strstr(pPath, BspExt) THEN [ret |-> FALSE, paths |-> paths]
    ELSE IF FindSearchPath(paths, pPath, TRUE, pathID) # Len(paths) + 1
         THEN [ret |-> FALSE, paths |-> paths]
    ELSE [ret |-> TRUE,
          paths |-> EmplaceBack(paths,
                        NewSearchPath(make_preferred(pPath), pathID,
                                      IF bReadOnly THEN {READ_ONLY} ELSE {},
                                      0, << >>))]

\* ~CSearchPath: the unique_ptr to the pack's CFileHandle closes its FILE.
DestroySearchPath(st, sp) ==
    IF sp.packFile # 0 THEN [st EXCEPT ![sp.packFile] = ClosedStream] ELSE st

RECURSIVE DestroyAll(_, _)
DestroyAll(st, paths) ==
    IF paths = << >> THEN st
    ELSE DestroyAll(DestroySearchPath(st, Head(paths)), Tail(paths))

\* CFileSystem::RemoveSearchPath( pPath ): [ret, paths, streams]
RemoveSearchPathResult(paths, st, pPath) ==
    IF pPath = NullStr THEN [ret |-> FALSE, paths |-> paths, streams |-> st]
    ELSE LET it == FindSearchPath(paths, pPath, FALSE, NullID)
         IN  IF it = Len(paths) + 1
             THEN [ret |-> FALSE, paths |-> paths, streams |-> st]
             ELSE [ret |-> TRUE, paths |-> Erase(paths, it),
                   streams |-> DestroySearchPath(st, paths[it])]

-----------------------------------------------------------------------------
(* CFileHandle *)

\* CFileHandle( fs, fileName, options ): a handle that owns its FILE.
PlainHandle(addr, szFileName, file, length) ==
    [addr |-> addr, szFileName |-> szFileName, file |-> file,
     startOffset |-> 0, length |-> length, packEntry |-> FALSE]

\* CFileHandle( fs, fileName, pFile, startOffset, length ): a view into the
\* FILE of a pack, which it does not own.
PackEntryHandle(addr, szFileName, file, startOffset, length) ==
    [addr |-> addr, szFileName |-> szFileName, file |-> file,
     startOffset |-> startOffset, length |-> length, packEntry |-> TRUE]

IsOpen(fh) == fh.file # 0
IsPackEntry(fh) == fh.packEntry
GetStartOffset(fh) == fh.startOffset
GetLength(fh) == fh.length
GetFile(fh) == fh.file

\* The addresses a CFileHandle can get when the table holds at most cap.
HandleAddrs(cap) == 1..cap

UsedAddrs(files) == {files[i].addr : i \in DOMAIN files}

\* The position of the handle with address `file` in m_OpenedFiles, or
\* Len + 1 for end() (the loop of Close).
RECURSIVE FindOpenedFrom(_, _, _)
FindOpenedFrom(files, position, file) ==
    IF position > Len(files) THEN Len(files) + 1
    ELSE IF files[position].addr = file THEN position
    ELSE FindOpenedFrom(files, position + 1, file)

FindOpened(files, file) == FindOpenedFrom(files, 1, file)

-----------------------------------------------------------------------------
(* The resolver *)

\* strchr( pOptions, 'w' ) != nullptr
IsWriteOptions(pOptions) == strstr(pOptions, Str1("w"))

\* pathID && ( !searchPath->pszPathID || strcmp( pathID, searchPath->pszPathID ) != 0 )
PathIDMismatch(pathID, sp) ==
    pathID # NullID /\ (sp.pszPathID = NullID \/ pathID # sp.pszPathID)

OpenPath(sp, pFileName) == make_preferred(PathAppend(sp.szPath, pFileName))

\* A resolver that keeps looking after it found the file: the last search path
\* that has it wins.
OpenFromLast(paths, it, d, pFileName, pOptions, pathID) ==
    LET Has(i) == /\ ~(READ_ONLY \in paths[i].flags /\ IsWriteOptions(pOptions))
                  /\ ~PathIDMismatch(pathID, paths[i])
                  /\ fopen_ok(d, OpenPath(paths[i], pFileName), pOptions)
        has    == {i \in it..Len(paths) : Has(i)}
    IN  IF has = {} THEN 0 ELSE CHOOSE i \in has : \A j \in has : j <= i

\* The loop of CFileSystem::Open: the index of the search path under which the
\* file was opened, 0 when the loop ran out.
RECURSIVE OpenFrom(_, _, _, _, _, _)
OpenFrom(paths, it, d, pFileName, pOptions, pathID) ==
    IF it > Len(paths) THEN 0
    ELSE IF READ_ONLY \in paths[it].flags /\ IsWriteOptions(pOptions)
         THEN OpenFrom(paths, it + 1, d, pFileName, pOptions, pathID)
    ELSE IF PathIDMismatch(pathID, paths[it])
         THEN OpenFrom(paths, it + 1, d, pFileName, pOptions, pathID)
    ELSE IF fopen_ok(d, OpenPath(paths[it], pFileName), pOptions)
         THEN it
    ELSE OpenFrom(paths, it + 1, d, pFileName, pOptions, pathID)

OpenIndex(paths, d, pFileName, pOptions, pathID) ==
    IF pFileName = NullStr \/ pOptions = NullStr THEN 0
    ELSE OpenFrom(paths, 1, d, pFileName, pOptions, pathID)

\* The position of `name` in a pack's entries, 0 for end().
EntryIndex(entries, name) ==
    IF \E i \in DOMAIN entries : entries[i].szFileName = name
    THEN CHOOSE i \in DOMAIN entries : entries[i].szFileName = name
    ELSE 0

\* The loop of CFileSystem::OpenFromCacheForRead: the index of the pack whose
\* entries hold the file, 0 when the loop ran out.
RECURSIVE OpenFromCacheFrom(_, _, _, _)
OpenFromCacheFrom(paths, it, pFileName, pathID) ==
    IF it > Len(paths) THEN 0
    ELSE IF IS_PACK_FILE \notin paths[it].flags
         THEN OpenFromCacheFrom(paths, it + 1, pFileName, pathID)
    ELSE IF PathIDMismatch(pathID, paths[it])
         THEN OpenFromCacheFrom(paths, it + 1, pFileName, pathID)
    ELSE IF EntryIndex(paths[it].packEntries, make_preferred(pFileName)) = 0
         THEN OpenFromCacheFrom(paths, it + 1, pFileName, pathID)
    ELSE it

OpenFromCacheIndex(paths, pFileName, pOptions, pathID) ==
    IF pFileName = NullStr \/ pOptions = NullStr THEN 0
    ELSE IF IsWriteOptions(pOptions) THEN 0
    ELSE OpenFromCacheFrom(paths, 1, pFileName, pathID)

-----------------------------------------------------------------------------
(* Pack files *)

\* sizeof( PackType::Entry_t ) and PackType::MAX_FILES of the two kinds, in
\* the units of PackImage.
SizeofEntry(ident) == IF ident = "PACK_32BIT" THEN 2 ELSE 3
MAX_FILES(ident) == IF ident = "PACK_32BIT" THEN 3 ELSE 4

\* entries.emplace( name, entry ): a name already present keeps its entry.
EntriesEmplace(entries, e) ==
    IF EntryIndex(entries, e.szFileName) # 0 THEN entries ELSE Append(entries, e)

RECURSIVE EmplaceRecords(_, _, _, _)
EmplaceRecords(entries, packEntries, uiIndex, numFiles) ==
    IF uiIndex > numFiles THEN entries
    ELSE EmplaceRecords(
            EntriesEmplace(entries,
                [szFileName |-> make_preferred(packEntries[uiIndex].szFileName),
                 startOffset |-> packEntries[uiIndex].filepos,
                 length |-> packEntries[uiIndex].filelen]),
            packEntries, uiIndex + 1, numFiles)

\* ProcessPackFile<PackType>: [ok, entries, pos]; pos is where the FILE is left.
ProcessPackFile(image) ==
    LET numFiles == image.dirlen \div SizeofEntry(image.ident)
        present  == Min(numFiles, Len(image.dir))
    IN  IF image.size < 1
        THEN [ok |-> FALSE, entries |-> << >>, pos |-> 0]
        ELSE IF image.dirlen % SizeofEntry(image.ident) # 0
        THEN [ok |-> FALSE, entries |-> << >>, pos |-> 1]
        ELSE IF numFiles > MAX_FILES(image.ident)
        THEN [ok |-> FALSE, entries |-> << >>, pos |-> 1]
        ELSE IF image.dirofs + image.dirlen > image.size \/ present < numFiles
        THEN [ok |-> FALSE, entries |-> << >>, pos |-> image.size]
        ELSE [ok |-> TRUE,
              entries |-> EmplaceRecords(<< >>, image.dir, 1, numFiles),
              pos |-> image.dirofs + image.dirlen]

\* An AddPackFile that registers the pack before it parses it: a parse that
\* fails leaves the search path behind.
AddPackFileBeforeParse(paths, st, d, fullpath, pathID) ==
    LET fail  == [ret |-> FALSE, paths |-> paths, streams |-> st]
        image == PackImage(OsName(fullpath))
        file  == NewStream(st)
        pack  == ProcessPackFile(image)
        added == EmplaceBack(paths,
                    NewSearchPath(make_preferred(fullpath), pathID,
                                  {READ_ONLY, IS_PACK_FILE}, file, pack.entries))
        opened == [st EXCEPT ![file] = [open |-> TRUE, pos |-> pack.pos,
                                        size |-> image.size, err |-> FALSE]]
    IN  IF fullpath = NullStr THEN fail
        ELSE IF ~fopen_ok(d, fullpath, <<"r", "b">>) THEN fail
        ELSE IF image.size < 1 THEN fail
        ELSE IF image.ident = "NOT_A_PACK" THEN fail
        ELSE [ret |-> pack.ok, paths |-> added, streams |-> opened]

\* CFileSystem::AddPackFile( fullpath, pathID ): [ret, paths, streams]
AddPackFileResult(paths, st, d, fullpath, pathID) ==
    LET fail  == [ret |-> FALSE, paths |-> paths, streams |-> st]
        image == PackImage(OsName(fullpath))
        file  == NewStream(st)
        pack  == ProcessPackFile(image)
    IN  IF fullpath = NullStr THEN fail
        ELSE IF ~fopen_ok(d, fullpath, <<"r", "b">>) THEN fail
        ELSE IF image.size < 1 THEN fail
        ELSE IF image.ident = "NOT_A_PACK" THEN fail
        ELSE IF ~pack.ok THEN fail
        ELSE [ret |-> TRUE,
              paths |-> EmplaceBack(paths,
                            NewSearchPath(make_preferred(fullpath), pathID,
                                          {READ_ONLY, IS_PACK_FILE},
                                          file, pack.entries)),
              streams |-> [st EXCEPT ![file] =
                              [open |-> TRUE, pos |-> pack.pos,
                               size |-> image.size, err |-> FALSE]]]

-----------------------------------------------------------------------------
(* Operations on an open handle *)

SEEK_HEAD == "FILESYSTEM_SEEK_HEAD"
SEEK_CURRENT == "FILESYSTEM_SEEK_CURRENT"
SEEK_TAIL == "FILESYSTEM_SEEK_TAIL"

\* fseek( file, pos, origin ): a target before the start of the file fails
\* and leaves the position alone; a target past the end is allowed.
fseek(st, file, pos, origin) ==
    LET target == CASE origin = "SEEK_SET" -> pos
                    [] origin = "SEEK_CUR" -> st[file].pos + pos
                    [] origin = "SEEK_END" -> st[file].size + pos
    IN  IF target < 0 THEN st ELSE [st EXCEPT ![file].pos = target]

ftell(st, file) == st[file].pos

\* fread( buf, 1, size, file ): [count, streams]
fread(st, file, size) ==
    LET count == Min(size, Max(0, st[file].size - st[file].pos))
    IN  [count |-> count, streams |-> [st EXCEPT ![file].pos = @ + count]]

\* A Seek that takes the tail of a pack entry for its start.
SeekPackPosNoLength(fh, pos, seekType) ==
    CASE seekType = SEEK_HEAD -> pos + GetStartOffset(fh)
      [] seekType = SEEK_TAIL -> pos + GetStartOffset(fh)
      [] OTHER -> pos

\* The switch of Seek on a pack entry: the position and seek type handed on.
SeekPackPos(fh, pos, seekType) ==
    CASE seekType = SEEK_HEAD -> pos + GetStartOffset(fh)
      [] seekType = SEEK_TAIL -> pos + GetStartOffset(fh) + GetLength(fh)
      [] OTHER -> pos

SeekPackType(seekType) == IF seekType = SEEK_TAIL THEN SEEK_HEAD ELSE seekType

\* CFileSystem::Seek on an open handle: the streams afterwards.
SeekResult(st, fh, pos, seekType) ==
    LET pos2  == IF IsPackEntry(fh) THEN SeekPackPos(fh, pos, seekType) ELSE pos
        type2 == IF IsPackEntry(fh) THEN SeekPackType(seekType) ELSE seekType
    IN  CASE type2 = SEEK_HEAD    -> fseek(st, GetFile(fh), pos2, "SEEK_SET")
          [] type2 = SEEK_CURRENT -> fseek(st, GetFile(fh), pos2, "SEEK_CUR")
          [] type2 = SEEK_TAIL    -> fseek(st, GetFile(fh), pos2, "SEEK_END")
          [] OTHER                -> st

\* static_cast<unsigned int>( n ): n itself when n >= 0, and 2^32 + n
\* (carry = 1) when n < 0.
UnsignedCast(n) == [val |-> n, carry |-> IF n < 0 THEN 1 ELSE 0]

\* CFileSystem::Tell on an open handle.
TellResult(st, fh) ==
    IF IsPackEntry(fh)
    THEN UnsignedCast(ftell(st, GetFile(fh)) - GetStartOffset(fh))
    ELSE UnsignedCast(ftell(st, GetFile(fh)))

\* An EndOfFile that only answers true past the window.
EndOfFilePastLength(st, fh) ==
    ftell(st, GetFile(fh)) > GetStartOffset(fh) + GetLength(fh)

\* CFileSystem::EndOfFile on an open pack entry.
EndOfFilePackEntry(st, fh) ==
    ftell(st, GetFile(fh)) >= GetStartOffset(fh) + GetLength(fh)

\* The count Read reports for a pack entry once fread returned `result`.
ReadClip(relativePos, size, length, result) ==
    IF relativePos + size >= length + 1
    THEN Min(result, (length + 1) - relativePos)
    ELSE result

\* CFileSystem::Read on an open pack entry: [ret, streams].  `wraps` says
\* whether the offsets are of an unsigned type, so that a position before the
\* window gives a huge relativePos.
ReadPackEntry(st, fh, size, wraps) ==
    LET position    == ftell(st, GetFile(fh))
        relativePos == position - GetStartOffset(fh)
        rd          == fread(st, GetFile(fh), size)
    IN  IF GetLength(fh) = 0 THEN [ret |-> 0, streams |-> st]
        ELSE IF relativePos >= GetLength(fh) \/ (relativePos < 0 /\ wraps)
        THEN [ret |-> 0, streams |-> st]
        ELSE [ret |-> ReadClip(relativePos, size, GetLength(fh), rd.count),
              streams |-> rd.streams]

-----------------------------------------------------------------------------
(* Directory walks and wildcards *)

\* What a recursive walk can meet, in the order it meets it.
HostWalkOrder ==
    << [name |-> <<"a", "/">> \o FileMT, dir |-> FALSE],
       [name |-> <<"a", "/">> \o FileNL, dir |-> FALSE],
       [name |-> DirAS, dir |-> TRUE],
       [name |-> <<"b", "/">> \o FileMT, dir |-> FALSE],
       [name |-> <<"b", "/">> \o FileNL, dir |-> FALSE] >>

IsUnder(name, dirname) ==
    /\ Len(name) > Len(dirname) + 1
    /\ SubSeq(name, 1, Len(dirname)) = dirname
    /\ name[Len(dirname) + 1] = "/"

IsHostDirectory(szPath) == OsName(szPath) \in HostDirs

\* fs::recursive_directory_iterator( szPath ) of an existing directory, as
\* the sequence of entries still to come.
Walk(d, szPath) ==
    LET Met(e) == IsUnder(e.name, OsName(szPath)) /\ (e.dir \/ e.name \in d)
        met    == SelectSeq(HostWalkOrder, Met)
    IN  [i \in DOMAIN met |->
            [path |-> szPath \o <<preferred_separator>> \o
                      make_preferred(SubSeq(met[i].name, Len(szPath) + 2,
                                            Len(met[i].name))),
             dir |-> met[i].dir]]

\* The loop of FindFirst: every '*' becomes ".*".
RECURSIVE ReplaceStars(_)
ReplaceStars(s) ==
    IF s = << >> THEN << >>
    ELSE IF Head(s) = "*" THEN <<".", "*">> \o ReplaceStars(Tail(s))
    ELSE <<Head(s)>> \o ReplaceStars(Tail(s))

\* std::regex_match for the expressions FindFirst builds: a character stands
\* for itself, '.' for any character, '\' makes the next character literal,
\* and a following '*' repeats the atom any number of times.
AtomLen(re) == IF Head(re) = "\\" /\ Len(re) >= 2 THEN 2 ELSE 1

AtomMatches(re, c) ==
    IF Head(re) = "\\" /\ Len(re) >= 2 THEN c = re[2]
    ELSE Head(re) = "." \/ Head(re) = c

RECURSIVE regex_match(_, _)
regex_match(s, re) ==
    IF re = << >> THEN s = << >>
    ELSE LET n    == AtomLen(re)
             rest == SubSeq(re, n + 1, Len(re))
         IN  IF rest # << >> /\ Head(rest) = "*"
             THEN \/ regex_match(s, Tail(rest))
                  \/ (s # << >> /\ AtomMatches(re, Head(s)) /\ regex_match(Tail(s), re))
             ELSE s # << >> /\ AtomMatches(re, Head(s)) /\ regex_match(Tail(s), rest)

-----------------------------------------------------------------------------
(* Find cursors *)

VALID == "VALID"
END_OF_DATA == "END_OF_DATA"

NoEntry == [path |-> << >>, dir |-> FALSE]

\* A FindFileData as FindFirst fills it in: no walk yet (the iterator is the
\* end iterator << >>), no current search path (0).
NewFindFileData(filter, pathID) ==
    [filter |-> filter,
     szPathID |-> IF pathID # NullID THEN pathID ELSE "",
     flags |-> {VALID},
     currentPath |-> 0,
     iterator |-> << >>,
     entry |-> NoEntry,
     szFileName |-> << >>]

\* *data.szPathID && ( !path->pszPathID || strcmp( data.szPathID, path->pszPathID ) != 0 )
FindPathIDMismatch(data, sp) ==
    data.szPathID # "" /\ (sp.pszPathID = NullID \/ data.szPathID # sp.pszPathID)

\* The inner for loop over the search paths: the first one from `path` on that
\* passes the filter, 0 when there is none.
RECURSIVE NextFindPath(_, _, _)
NextFindPath(data, paths, path) ==
    IF path > Len(paths) THEN 0
    ELSE IF FindPathIDMismatch(data, paths[path])
         THEN NextFindPath(data, paths, path + 1)
    ELSE path

\* The for loop over the walk: entries are taken until one matches.
RECURSIVE ScanWalk(_)
ScanWalk(data) ==
    IF data.iterator = << >> THEN [data |-> data, found |-> FALSE]
    ELSE LET next == [data EXCEPT !.entry = Head(data.iterator),
                                  !.szFileName = Head(data.iterator).path,
                                  !.iterator = Tail(data.iterator)]
         IN  IF regex_match(next.szFileName, next.filter)
             THEN [data |-> next, found |-> TRUE]
             ELSE ScanWalk(next)

\* One round of the do-while loop of FindNext, then the rounds after it.
\* [data, ret, how]: how is "return", "throw" (the walk's constructor threw
\* filesystem_error) or "hang" (the loop repeats one round for ever: a round
\* that starts a walk and finds nothing leaves the cursor where it started).
RECURSIVE FindNextLoop(_, _, _, _)
FindNextLoop(data, paths, d, round) ==
    LET atEnd   == data.iterator = << >>
        path    == IF data.currentPath # 0 THEN data.currentPath ELSE 1
        next    == NextFindPath(data, paths, path)
        started == IF ~atEnd THEN data
                   ELSE IF next = 0 THEN [data EXCEPT !.flags = @ \cup {END_OF_DATA}]
                   ELSE [data EXCEPT !.currentPath = next,
                                     !.iterator =
                                        IF IsHostDirectory(paths[next].szPath)
                                        THEN Walk(d, paths[next].szPath)
                                        ELSE << >>]
        scan    == ScanWalk(started)
    IN  IF atEnd /\ next # 0 /\ ~IsHostDirectory(paths[next].szPath)
        THEN [data |-> started, ret |-> NullStr, how |-> "throw"]
        ELSE IF END_OF_DATA \in started.flags
        THEN [data |-> started, ret |-> NullStr, how |-> "return"]
        ELSE IF scan.found
        THEN [data |-> scan.data, ret |-> scan.data.szFileName, how |-> "return"]
        ELSE IF atEnd /\ round > 1
        THEN [data |-> scan.data, ret |-> NullStr, how |-> "hang"]
        ELSE FindNextLoop(scan.data, paths, d, round + 1)

\* CFileSystem::FindNext( handle ): [finds, ret, how]
FindNextResult(finds, paths, d, handle) ==
    IF handle < 0 \/ handle >= Len(finds)
    THEN [finds |-> finds, ret |-> NullStr, how |-> "return"]
    ELSE IF END_OF_DATA \in finds[handle + 1].flags
    THEN [finds |-> finds, ret |-> NullStr, how |-> "return"]
    ELSE LET r == FindNextLoop(finds[handle + 1], paths, d, 1)
         IN  [finds |-> [finds EXCEPT ![handle + 1] = r.data],
              ret |-> r.ret, how |-> r.how]

\* The loop of FindClose on the last slot.  It tests the flags of `data`, the
\* cursor being closed, which is VALID here, so that it stops at once.
RECURSIVE CloseTrailing(_, _)
CloseTrailing(finds, data) ==
    IF finds = << >> THEN finds
    ELSE IF VALID \in data.flags THEN finds
    ELSE CloseTrailing(SubSeq(finds, 1, Len(finds) - 1), data)

\* A FindClose that clears every flag of a cursor that is not the last slot.
FindCloseResultClearsFlags(finds, handle) ==
    IF handle < 0 \/ handle >= Len(finds) THEN finds
    ELSE IF VALID \notin finds[handle + 1].flags THEN finds
    ELSE IF handle = Len(finds) - 1
         THEN CloseTrailing(finds, finds[handle + 1])
         ELSE [finds EXCEPT ![handle + 1].flags = {}]

\* CFileSystem::FindClose( handle ): the table afterwards.
FindCloseResult(finds, handle) ==
    IF handle < 0 \/ handle >= Len(finds) THEN finds
    ELSE IF VALID \notin finds[handle + 1].flags THEN finds
    ELSE IF handle = Len(finds) - 1
         THEN CloseTrailing(finds, finds[handle + 1])
         ELSE [finds EXCEPT ![handle + 1].flags = @ \ {VALID}]

\* CFileSystem::FindFirst( pWildCard, pHandle, pathID ): [finds, ret, handle, how]
FindFirstResult(finds, paths, d, pWildCard, pathID) ==
    IF pWildCard = NullStr
    THEN [finds |-> finds, ret |-> NullStr,
          handle |-> FILESYSTEM_INVALID_FIND_HANDLE, how |-> "return"]
    ELSE LET data   == NewFindFileData(make_preferred(ReplaceStars(pWildCard)), pathID)
             pushed == EmplaceBack(finds, data)
             handle == Len(pushed) - 1
             r      == FindNextResult(pushed, paths, d, handle)
         IN  IF r.how # "return"
             THEN [finds |-> r.finds, ret |-> NullStr, handle |-> handle, how |-> r.how]
             ELSE IF r.ret # NullStr
             THEN [finds |-> r.finds, ret |-> r.ret, handle |-> handle, how |-> "return"]
             ELSE [finds |-> FindCloseResult(r.finds, handle), ret |-> NullStr,
                   handle |-> FILESYSTEM_INVALID_FIND_HANDLE, how |-> "return"]

\* CFileSystem::FindIsDirectory( handle )
FindIsDirectoryResult(finds, handle) ==
    IF handle < 0 \/ handle >= Len(finds) THEN FALSE
    ELSE IF END_OF_DATA \in finds[handle + 1].flags THEN FALSE
    ELSE finds[handle + 1].entry.dir

-----------------------------------------------------------------------------
(* The calls *)

\* The record of a call: which (op), with what (str, opt, id, h, k), what it
\* returned (ok, val, carry, name) and how it ended (how).  n is the size or
\* position argument of Read and Seek, the search path that Open,
\* OpenFromCacheForRead, RemoveFile or CreateDirHierarchy chose, and for
\* Close and FindClose 1 when the call repeats the call before it.  p and
\* before keep what the call saw before it acted, entries is the mapping
\* ProcessPackFile filled, and warn is the level of the Warning the call gave.
NoCall ==
    [op |-> "none", str |-> << >>, opt |-> << >>, id |-> NullID, h |-> 0,
     n |-> 0, k |-> "", ok |-> FALSE, val |-> 0, carry |-> 0, name |-> << >>,
     how |-> "return", p |-> 0, before |-> << >>, entries |-> << >>,
     warn |-> "none"]

\* A call that never returns leaves nothing to run.
Running == last.how # "hang"

DoAddSearchPath(op, cap, pPath, pathID, bReadOnly) ==
    LET r == AddSearchPathResult(m_SearchPaths, pPath, pathID, bReadOnly)
    IN  /\ Running
        /\ Len(r.paths) <= cap
        /\ m_SearchPaths' = r.paths
        /\ last' = [NoCall EXCEPT !.op = op, !.str = pPath, !.id = pathID,
                                  !.ok = r.ret]
        /\ UNCHANGED <<preferred_separator, m_OpenedFiles, m_FindFiles, streams, disk>>

\* CFileSystem::AddSearchPath( pPath, pathID )
AddSearchPath(cap, pPath, pathID) ==
    DoAddSearchPath("AddSearchPath", cap, pPath, pathID, FALSE)

\* CFileSystem::AddSearchPathNoWrite( pPath, pathID )
AddSearchPathNoWrite(cap, pPath, pathID) ==
    DoAddSearchPath("AddSearchPathNoWrite", cap, pPath, pathID, TRUE)

\* CFileSystem::AddPackFile( fullpath, pathID )
AddPackFile(cap, fullpath, pathID) ==
    LET r == AddPackFileResult(m_SearchPaths, streams, disk, fullpath, pathID)
    IN  /\ Running
        /\ Len(r.paths) <= cap
        /\ FreeStreams(streams) # {}
        /\ m_SearchPaths' = r.paths
        /\ streams' = r.streams
        /\ last' = [NoCall EXCEPT !.op = "AddPackFile", !.str = fullpath,
                                  !.id = pathID, !.ok = r.ret]
        /\ UNCHANGED <<preferred_separator, m_OpenedFiles, m_FindFiles, disk>>

\* CFileSystem::RemoveSearchPath( pPath )
RemoveSearchPath(pPath) ==
    LET r == RemoveSearchPathResult(m_SearchPaths, streams, pPath)
    IN  /\ Running
        /\ m_SearchPaths' = r.paths
        /\ streams' = r.streams
        /\ last' = [NoCall EXCEPT !.op = "RemoveSearchPath", !.str = pPath,
                                  !.ok = r.ret, !.before = m_SearchPaths]
        /\ UNCHANGED <<preferred_separator, m_OpenedFiles, m_FindFiles, disk>>

\* CFileSystem::RemoveAllSearchPaths()
RemoveAllSearchPaths ==
    /\ Running
    /\ m_SearchPaths' = << >>
    /\ streams' = DestroyAll(streams, m_SearchPaths)
    /\ last' = [NoCall EXCEPT !.op = "RemoveAllSearchPaths"]
    /\ UNCHANGED <<preferred_separator, m_OpenedFiles, m_FindFiles, disk>>

\* CFileSystem::Open( pFileName, pOptions, pathID )
Open(cap, pFileName, pOptions, pathID) ==
    LET it == OpenIndex(m_SearchPaths, disk, pFileName, pOptions, pathID)
    IN  /\ Running
        /\ IF it = 0
           THEN /\ last' = [NoCall EXCEPT !.op = "Open", !.str = pFileName,
                                          !.opt = pOptions, !.id = pathID,
                                          !.h = FILESYSTEM_INVALID_HANDLE]
                /\ UNCHANGED <<m_OpenedFiles, streams, disk>>
           ELSE LET path == OpenPath(m_SearchPaths[it], pFileName)
                    file == NewStream(streams)
                IN  /\ Len(m_OpenedFiles) < cap
                    /\ FreeStreams(streams) # {}
                    /\ \E addr \in HandleAddrs(cap) \ UsedAddrs(m_OpenedFiles) :
                        /\ m_OpenedFiles' = EmplaceBack(m_OpenedFiles,
                                PlainHandle(addr, path, file, FileSizeOf(OsName(path))))
                        /\ last' = [NoCall EXCEPT !.op = "Open", !.str = pFileName,
                                                  !.opt = pOptions, !.id = pathID,
                                                  !.h = addr, !.name = path,
                                                  !.n = it]
                    /\ streams' = [streams EXCEPT ![file] =
                                      [open |-> TRUE, pos |-> 0,
                                       size |-> FileSizeOf(OsName(path)), err |-> FALSE]]
                    /\ disk' = IF FopenCreates(pOptions)
                               THEN disk \cup {OsName(path)} ELSE disk
        /\ UNCHANGED <<preferred_separator, m_SearchPaths, m_FindFiles>>

\* CFileSystem::OpenFromCacheForRead( pFileName, pOptions, pathID )
OpenFromCacheForRead(cap, pFileName, pOptions, pathID) ==
    LET it == OpenFromCacheIndex(m_SearchPaths, pFileName, pOptions, pathID)
    IN  /\ Running
        /\ IF it = 0
           THEN /\ last' = [NoCall EXCEPT !.op = "OpenFromCacheForRead",
                                          !.str = pFileName, !.opt = pOptions,
                                          !.id = pathID,
                                          !.h = FILESYSTEM_INVALID_HANDLE]
                /\ UNCHANGED <<m_OpenedFiles, streams>>
           ELSE LET sp    == m_SearchPaths[it]
                    entry == sp.packEntries[EntryIndex(sp.packEntries,
                                                       make_preferred(pFileName))]
                IN  /\ Len(m_OpenedFiles) < cap
                    /\ \E addr \in HandleAddrs(cap) \ UsedAddrs(m_OpenedFiles) :
                        /\ m_OpenedFiles' = EmplaceBack(m_OpenedFiles,
                                PackEntryHandle(addr, make_preferred(pFileName),
                                                sp.packFile, entry.startOffset,
                                                entry.length))
                        /\ last' = [NoCall EXCEPT !.op = "OpenFromCacheForRead",
                                                  !.str = pFileName,
                                                  !.opt = pOptions, !.id = pathID,
                                                  !.h = addr,
                                                  !.name = make_preferred(pFileName),
                                                  !.n = it]
                    /\ streams' = fseek(streams, sp.packFile, entry.startOffset,
                                        "SEEK_SET")
        /\ UNCHANGED <<preferred_separator, m_SearchPaths, m_FindFiles, disk>>

\* The levels a Warning is given at.
FILESYSTEM_WARNING_CRITICAL == "FILESYSTEM_WARNING_CRITICAL"
FILESYSTEM_WARNING_REPORTALLACCESSES == "FILESYSTEM_WARNING_REPORTALLACCESSES"

\* What a file-handle operation leaves of a call with the null handle: the
\* Warning of its first test, and the return of 0, false or nullptr.
NullHandleCall(op) ==
    [NoCall EXCEPT !.op = op, !.h = FILESYSTEM_INVALID_HANDLE,
                   !.warn = FILESYSTEM_WARNING_CRITICAL]

\* CFileHandle::Close: a handle that owns its FILE closes it.
CloseHandle(st, fh) ==
    IF IsPackEntry(fh) THEN st ELSE [st EXCEPT ![GetFile(fh)] = ClosedStream]

\* A Close without the test for end(): a handle it does not find costs the
\* table its last element.
CloseResultNoEndTest(files, st, file) ==
    LET position == Min(FindOpened(files, file), Len(files))
    IN  IF file = FILESYSTEM_INVALID_HANDLE \/ files = << >>
        THEN [files |-> files, streams |-> st]
        ELSE [files |-> Erase(files, position),
              streams |-> IF IsOpen(files[position])
                          THEN CloseHandle(st, files[position]) ELSE st]

\* CFileSystem::Close( file ): [files, streams]
CloseResult(files, st, file) ==
    LET position == FindOpened(files, file)
    IN  IF file = FILESYSTEM_INVALID_HANDLE THEN [files |-> files, streams |-> st]
        ELSE IF position = Len(files) + 1 THEN [files |-> files, streams |-> st]
        ELSE [files |-> Erase(files, position),
              streams |-> IF IsOpen(files[position])
                          THEN CloseHandle(st, files[position]) ELSE st]

\* The Warning of CFileSystem::Close: none for the null handle and for a
\* pointer that is not in m_OpenedFiles.
CloseWarning(files, file) ==
    LET position == FindOpened(files, file)
    IN  IF file = FILESYSTEM_INVALID_HANDLE THEN "none"
        ELSE IF position = Len(files) + 1 THEN "none"
        ELSE IF IsOpen(files[position]) THEN FILESYSTEM_WARNING_REPORTALLACCESSES
        ELSE FILESYSTEM_WARNING_CRITICAL

Close(file) ==
    LET r == CloseResult(m_OpenedFiles, streams, file)
    IN  /\ Running
        /\ m_OpenedFiles' = r.files
        /\ streams' = r.streams
        /\ last' = [NoCall EXCEPT !.op = "Close", !.h = file,
                                  !.n = IF last.op = "Close" /\ last.h = file
                                        THEN 1 ELSE 0,
                                  !.warn = CloseWarning(m_OpenedFiles, file)]
        /\ UNCHANGED <<preferred_separator, m_SearchPaths, m_FindFiles, disk>>

\* The open handle a FileHandle_t points to.
HandleAt(file) == m_OpenedFiles[FindOpened(m_OpenedFiles, file)]

IsOpenHandle(file) ==
    /\ file # FILESYSTEM_INVALID_HANDLE
    /\ FindOpened(m_OpenedFiles, file) # Len(m_OpenedFiles) + 1
    /\ IsOpen(HandleAt(file))
    /\ streams[GetFile(HandleAt(file))].open

\* CFileSystem::Seek( file, pos, seekType ) on an open handle.  maxPos keeps
\* the position of the FILE within the model.
Seek(maxPos, file, pos, seekType) ==
    /\ Running
    /\ IF file = FILESYSTEM_INVALID_HANDLE
       THEN /\ streams' = streams
            /\ last' = [NullHandleCall("Seek") EXCEPT !.n = pos, !.k = seekType]
       ELSE /\ IsOpenHandle(file)
            /\ LET st == SeekResult(streams, HandleAt(file), pos, seekType)
               IN  /\ st[GetFile(HandleAt(file))].pos <= maxPos
                   /\ streams' = st
            /\ last' = [NoCall EXCEPT !.op = "Seek", !.h = file, !.n = pos,
                                      !.k = seekType,
                                      !.warn = IF seekType \in {SEEK_HEAD, SEEK_CURRENT,
                                                                SEEK_TAIL}
                                               THEN "none"
                                               ELSE FILESYSTEM_WARNING_CRITICAL]
    /\ UNCHANGED <<preferred_separator, m_SearchPaths, m_OpenedFiles, m_FindFiles, disk>>

\* CFileSystem::Tell( file ) on an open handle.
Tell(file) ==
    /\ Running
    /\ IF file = FILESYSTEM_INVALID_HANDLE
       THEN last' = NullHandleCall("Tell")
       ELSE /\ IsOpenHandle(file)
            /\ LET r == TellResult(streams, HandleAt(file))
               IN  last' = [NoCall EXCEPT !.op = "Tell", !.h = file, !.val = r.val,
                                          !.carry = r.carry]
    /\ UNCHANGED <<preferred_separator, m_SearchPaths, m_OpenedFiles, m_FindFiles,
                   streams, disk>>

\* CFileSystem::EndOfFile( file ) on an open pack entry.
EndOfFile(file) ==
    /\ Running
    /\ IF file = FILESYSTEM_INVALID_HANDLE
       THEN last' = NullHandleCall("EndOfFile")
       ELSE /\ IsOpenHandle(file)
            /\ IsPackEntry(HandleAt(file))
            /\ last' = [NoCall EXCEPT !.op = "EndOfFile", !.h = file,
                                      !.ok = EndOfFilePackEntry(streams, HandleAt(file))]
    /\ UNCHANGED <<preferred_separator, m_SearchPaths, m_OpenedFiles, m_FindFiles,
                   streams, disk>>

\* CFileSystem::Read( pOutput, size, file ) on an open pack entry.
Read(file, size) ==
    /\ Running
    /\ IF file = FILESYSTEM_INVALID_HANDLE
       THEN /\ streams' = streams
            /\ last' = [NullHandleCall("Read") EXCEPT !.n = size]
       ELSE /\ IsOpenHandle(file)
            /\ IsPackEntry(HandleAt(file))
            /\ \E wraps \in BOOLEAN :
                LET fh == HandleAt(file)
                    r  == ReadPackEntry(streams, fh, size, wraps)
                IN  /\ streams' = r.streams
                    /\ last' = [NoCall EXCEPT !.op = "Read", !.h = file, !.n = size,
                                              !.val = r.ret,
                                              !.p = ftell(streams, GetFile(fh)) -
                                                    GetStartOffset(fh)]
    /\ UNCHANGED <<preferred_separator, m_SearchPaths, m_OpenedFiles, m_FindFiles, disk>>

\* CFileSystem::FindFirst( pWildCard, pHandle, pathID )
FindFirst(cap, pWildCard, pathID) ==
    LET r == FindFirstResult(m_FindFiles, m_SearchPaths, disk, pWildCard, pathID)
    IN  /\ Running
        /\ Len(m_FindFiles) < cap
        /\ m_FindFiles' = r.finds
        /\ last' = [NoCall EXCEPT !.op = "FindFirst", !.str = pWildCard,
                                  !.id = pathID, !.h = r.handle, !.name = r.ret,
                                  !.how = r.how, !.before = m_FindFiles]
        /\ UNCHANGED <<preferred_separator, m_SearchPaths, m_OpenedFiles, streams, disk>>

\* CFileSystem::FindNext( handle )
FindNext(handle) ==
    LET r == FindNextResult(m_FindFiles, m_SearchPaths, disk, handle)
    IN  /\ Running
        /\ m_FindFiles' = r.finds
        /\ last' = [NoCall EXCEPT !.op = "FindNext", !.h = handle, !.name = r.ret,
                                  !.how = r.how, !.before = m_FindFiles]
        /\ UNCHANGED <<preferred_separator, m_SearchPaths, m_OpenedFiles, streams, disk>>

\* CFileSystem::FindClose( handle )
FindClose(handle) ==
    /\ Running
    /\ m_FindFiles' = FindCloseResult(m_FindFiles, handle)
    /\ last' = [NoCall EXCEPT !.op = "FindClose", !.h = handle,
                              !.n = IF last.op = "FindClose" /\ last.h = handle
                                    THEN 1 ELSE 0,
                              !.before = m_FindFiles]
    /\ UNCHANGED <<preferred_separator, m_SearchPaths, m_OpenedFiles, streams, disk>>

\* CFileSystem::FindIsDirectory( handle )
FindIsDirectory(handle) ==
    /\ Running
    /\ last' = [NoCall EXCEPT !.op = "FindIsDirectory", !.h = handle,
                              !.ok = FindIsDirectoryResult(m_FindFiles, handle)]
    /\ UNCHANGED <<preferred_separator, m_SearchPaths, m_OpenedFiles, m_FindFiles,
                   streams, disk>>

-----------------------------------------------------------------------------
(* The file system after construction *)

InitWith(separators) ==
    /\ preferred_separator \in separators
    /\ m_SearchPaths = << >>
    /\ m_OpenedFiles = << >>
    /\ m_FindFiles = << >>
    /\ streams = [i \in StreamIds |-> ClosedStream]
    /\ disk = InitialDisk
    /\ last = NoCall

PathIDs == {NullID, "GAME"}

-----------------------------------------------------------------------------
(* The registry: mounting and unmounting *)

RegMaxPaths == 2

RegPaths == {NullStr, << >>, Str1("a"), Str1("A"), DirAS, <<"m">> \o BspExt}
RegPacks == {NullStr, Str1("p"), Str1("P"), Str1("a")}

InitRegistry == InitWith({"/", "\\"})

NextRegistry ==
    \/ \E pPath \in RegPaths, pathID \in PathIDs :
            AddSearchPath(RegMaxPaths, pPath, pathID)
    \/ \E pPath \in RegPaths, pathID \in PathIDs :
            AddSearchPathNoWrite(RegMaxPaths, pPath, pathID)
    \/ \E fullpath \in RegPacks, pathID \in PathIDs :
            AddPackFile(RegMaxPaths, fullpath, pathID)
    \/ \E pPath \in RegPaths \cup RegPacks : RemoveSearchPath(pPath)
    \/ RemoveAllSearchPaths

SpecRegistry == InitRegistry /\ [][NextRegistry]_vars

\* The same calls where "/" is the one separator, so that make_preferred
\* changes no path.
InitRegistrySlash == InitWith({"/"})

SpecRegistrySlash == InitRegistrySlash /\ [][NextRegistry]_vars

-----------------------------------------------------------------------------
(* The resolver: opening files through the registry *)

OpenMaxPaths == 3
OpenMaxFiles == 1

\* The directories mounted here, each with the path ID it is mounted under.
OpenMounts ==
    {<<Str1("a"), NullID>>, <<Str1("a"), "GAME">>,
     <<Str1("b"), NullID>>, <<Str1("b"), "GAME">>}
OpenDirs == {m[1] : m \in OpenMounts}

\* The mounts that are also added read-only.
OpenReadOnlyMounts == {m \in OpenMounts : m[1] = Str1("a")}

\* The ( pFileName, pOptions ) of the Open calls.
OpenCalls ==
    {<<NullStr, Str1("r")>>, <<FileMT, NullStr>>, <<FileMT, Str1("r")>>,
     <<FileMT, Str1("w")>>, <<FileMT, Str1("a")>>}

InitOpen == InitWith({"/"})

NextOpen ==
    \/ \E m \in OpenMounts : AddSearchPath(OpenMaxPaths, m[1], m[2])
    \/ \E m \in OpenReadOnlyMounts :
            AddSearchPathNoWrite(OpenMaxPaths, m[1], m[2])
    \/ \E pPath \in OpenDirs : RemoveSearchPath(pPath)
    \/ \E c \in OpenCalls, pathID \in PathIDs :
            Open(OpenMaxFiles, c[1], c[2], pathID)
    \/ \E file \in HandleAddrs(OpenMaxFiles) : Close(file)

SpecOpen == InitOpen /\ [][NextOpen]_vars

-----------------------------------------------------------------------------
(* Archive views: positional operations on pack entries *)

ViewMaxFiles == 1
MaxStreamPos == 14

ViewPacks == {Str1("p"), Str1("q")}
ViewNames == {EntrySA, Str1("b"), Str1("z"), Str1("n")}
SeekTypes == {SEEK_HEAD, SEEK_CURRENT, SEEK_TAIL, "FILESYSTEM_SEEK_OTHER"}
SeekPositions == (0 - 4)..4
ReadSizes == 0..5

\* The file system with one pack mounted: what AddPackFile( fullpath, nullptr )
\* makes of the file system after construction.
InitView ==
    /\ preferred_separator = "/"
    /\ \E fullpath \in ViewPacks :
        LET r == AddPackFileResult(<< >>, [i \in StreamIds |-> ClosedStream],
                                   InitialDisk, fullpath, NullID)
        IN  /\ m_SearchPaths = r.paths
            /\ streams = r.streams
            /\ last = [NoCall EXCEPT !.op = "AddPackFile", !.str = fullpath,
                                     !.ok = r.ret]
    /\ m_OpenedFiles = << >>
    /\ m_FindFiles = << >>
    /\ disk = InitialDisk

NextView ==
    \/ \E pFileName \in ViewNames :
            OpenFromCacheForRead(ViewMaxFiles, pFileName, Str1("r"), NullID)
    \/ \E file \in HandleAddrs(ViewMaxFiles), pos \in SeekPositions,
          seekType \in SeekTypes :
            Seek(MaxStreamPos, file, pos, seekType)
    \/ \E file \in HandleAddrs(ViewMaxFiles) : Tell(file)
    \/ \E file \in HandleAddrs(ViewMaxFiles) : EndOfFile(file)
    \/ \E file \in HandleAddrs(ViewMaxFiles), size \in ReadSizes : Read(file, size)
    \/ \E file \in HandleAddrs(ViewMaxFiles) : Close(file)

SpecView == InitView /\ [][NextView]_vars

-----------------------------------------------------------------------------
(* Find cursors over a registry of directories *)

FindMaxPaths == 2
FindMaxFinds == 2

\* The search paths a registry is made of here: two directories with files,
\* an empty one, and one that does not exist.
FindSearchPaths ==
    { NewSearchPath(Str1("a"), NullID, {}, 0, << >>),
      NewSearchPath(Str1("b"), "GAME", {}, 0, << >>),
      NewSearchPath(Str1("e"), NullID, {READ_ONLY}, 0, << >>),
      NewSearchPath(Str1("d"), "GAME", {}, 0, << >>) }

\* The registries AddSearchPath and AddSearchPathNoWrite can build of them.
FindRegistries ==
    UNION { { r \in [1..n -> FindSearchPaths] :
                \A i, j \in 1..n : i # j => r[i] # r[j] } : n \in 0..FindMaxPaths }

FindWildCards == {NullStr, Str1("*"), <<"*", ".", "t">>, Str1("m")}

InitFind ==
    /\ preferred_separator = "/"
    /\ m_SearchPaths \in FindRegistries
    /\ m_OpenedFiles = << >>
    /\ m_FindFiles = << >>
    /\ streams = [i \in StreamIds |-> ClosedStream]
    /\ disk = InitialDisk
    /\ last = NoCall

FindHandles == (0 - 1)..FindMaxFinds

NextFind ==
    \/ \E pWildCard \in FindWildCards, pathID \in PathIDs :
            FindFirst(FindMaxFinds, pWildCard, pathID)
    \/ \E handle \in FindHandles : FindNext(handle)
    \/ \E handle \in FindHandles : FindIsDirectory(handle)
    \/ \E handle \in FindHandles : FindClose(handle)

SpecFind == InitFind /\ [][NextFind]_vars

-----------------------------------------------------------------------------
(* Closing: file handles and find cursors side by side *)

CloseMaxFiles == 2
CloseMaxFinds == 2

InitClose ==
    /\ preferred_separator = "/"
    /\ m_SearchPaths = << NewSearchPath(Str1("a"), NullID, {}, 0, << >>),
                          NewSearchPath(Str1("b"), "GAME", {}, 0, << >>) >>
    /\ m_OpenedFiles = << >>
    /\ m_FindFiles = << >>
    /\ streams = [i \in StreamIds |-> ClosedStream]
    /\ disk = InitialDisk
    /\ last = NoCall

NextClose ==
    \/ \E pathID \in PathIDs : Open(CloseMaxFiles, FileMT, Str1("r"), pathID)
    \/ \E file \in {FILESYSTEM_INVALID_HANDLE} \cup HandleAddrs(CloseMaxFiles) :
            Close(file)
    \/ \E pathID \in PathIDs : FindFirst(CloseMaxFinds, <<"*", ".", "t">>, pathID)
    \/ \E handle \in (0 - 1)..CloseMaxFinds : FindClose(handle)

SpecClose == InitClose /\ [][NextClose]_vars

-----------------------------------------------------------------------------
(* Resolution order (C1, C2) *)

AddOps == {"AddSearchPath", "AddSearchPathNoWrite"}

\* Search path i passes the pathID filter of a lookup.
PassesFilter(i, pathID) ==
    pathID = NullID \/ m_SearchPaths[i].pszPathID = pathID

\* Search path i holds the file of the last Open, ready to be read.
Readable(i) ==
    /\ PassesFilter(i, last.id)
    /\ OsName(OpenPath(m_SearchPaths[i], last.str)) \in disk

ReadOpen == last.op = "Open" /\ last.opt = Str1("r") /\ last.str # NullStr

OpenedHandle(file) ==
    {m_OpenedFiles[i] : i \in {j \in DOMAIN m_OpenedFiles : m_OpenedFiles[j].addr = file}}

\* An Open for reading returns a handle on the file under the first search
\* path, in registration order, that passes the filter and holds the file;
\* the invalid handle when there is none.
OpenTakesFirst ==
    ReadOpen =>
        IF \E i \in DOMAIN m_SearchPaths : Readable(i)
        THEN \E i \in DOMAIN m_SearchPaths :
                /\ Readable(i)
                /\ \A j \in 1..(i - 1) : ~Readable(j)
                /\ last.h # FILESYSTEM_INVALID_HANDLE
                /\ \E fh \in OpenedHandle(last.h) :
                        fh.szFileName = OpenPath(m_SearchPaths[i], last.str)
        ELSE last.h = FILESYSTEM_INVALID_HANDLE

\* A successful add leaves what was registered in place and puts the new
\* search path behind it.
AddAppends ==
    (last'.op \in AddOps /\ last'.ok) =>
        /\ Len(m_SearchPaths') = Len(m_SearchPaths) + 1
        /\ SubSeq(m_SearchPaths', 1, Len(m_SearchPaths)) = m_SearchPaths
        /\ stricmp_eq(m_SearchPaths'[Len(m_SearchPaths')].szPath, last'.str)
        /\ m_SearchPaths'[Len(m_SearchPaths')].pszPathID = last'.id

\* RemoveSearchPath( p ) and then an add of p: p is last, and before it stand
\* the search paths that were there before the removal, but one at p, in the
\* order they had.
ReAddMovesToEnd ==
    (/\ last.op = "RemoveSearchPath" /\ last.ok
     /\ last'.op \in AddOps /\ last'.ok
     /\ last'.str = last.str) =>
        /\ stricmp_eq(m_SearchPaths'[Len(m_SearchPaths')].szPath, last.str)
        /\ \E i \in DOMAIN last.before :
                /\ stricmp_eq(last.before[i].szPath, last.str)
                /\ SubSeq(m_SearchPaths', 1, Len(m_SearchPaths') - 1) =
                        [k \in 1..(Len(last.before) - 1) |->
                            IF k < i THEN last.before[k] ELSE last.before[k + 1]]

\* C1: Open for reading returns a handle on location/relativePath of the first
\* search path in registration order that passes the pathID filter and where
\* the file can be opened; an add appends at the end, so that removing p and
\* adding it again makes p the last search path and keeps the order of the
\* others.
C1_ResolutionOrder ==
    /\ []OpenTakesFirst
    /\ [][AddAppends /\ ReAddMovesToEnd]_vars

\* C1 witness: an Open for reading that passed over the first search path and
\* took a later one.
C1_Witness ==
    /\ ReadOpen
    /\ last.h # FILESYSTEM_INVALID_HANDLE
    /\ last.n > 1
    /\ ~Readable(1)

\* C2: an Open whose options ask for write or append access never returns a
\* handle under a search path flagged READ_ONLY or IS_PACK_FILE.
C2_WriteSkipsReadOnly ==
    (/\ last.op = "Open"
     /\ last.opt # NullStr
     /\ (strstr(last.opt, Str1("w")) \/ strstr(last.opt, Str1("a")))
     /\ last.h # FILESYSTEM_INVALID_HANDLE) =>
        m_SearchPaths[last.n].flags \cap {READ_ONLY, IS_PACK_FILE} = {}

-----------------------------------------------------------------------------
(* Archive views (C3, C4, C5) *)

\* The pack entry the last call worked on, and the position of its FILE.
ViewOfLast == HandleAt(last.h)
RawPosOfLast == streams[GetFile(ViewOfLast)].pos

OnView(op) ==
    /\ last.op = op
    /\ FindOpened(m_OpenedFiles, last.h) # Len(m_OpenedFiles) + 1
    /\ IsPackEntry(ViewOfLast)

\* C3: a Read on a pack entry whose relative cursor p is within 0..length
\* returns at most length - p, whatever follows the window in the pack.
C3_ReadWithinWindow ==
    (OnView("Read") /\ 0 <= last.p /\ last.p <= GetLength(ViewOfLast)) =>
        last.val <= GetLength(ViewOfLast) - last.p

SeekInWindow(seekType) ==
    /\ OnView("Seek")
    /\ last.k = seekType
    /\ IF seekType = SEEK_HEAD
       THEN 0 <= last.n /\ last.n <= GetLength(ViewOfLast)
       ELSE 0 - GetLength(ViewOfLast) <= last.n /\ last.n <= 0

\* Where in the window a Seek from `seekType` by n is to land.
SeekTarget(seekType, n, length) == IF seekType = SEEK_HEAD THEN n ELSE length + n

\* After a Seek inside the window the FILE stands at startOffset + target.
SeekSetsRawPosition ==
    \A seekType \in {SEEK_HEAD, SEEK_TAIL} :
        SeekInWindow(seekType) =>
            RawPosOfLast = GetStartOffset(ViewOfLast) +
                           SeekTarget(seekType, last.n, GetLength(ViewOfLast))

\* A Tell that follows such a Seek on the same handle returns the target.
TellAfterSeek ==
    \A seekType \in {SEEK_HEAD, SEEK_TAIL} :
        (SeekInWindow(seekType) /\ last'.op = "Tell" /\ last'.h = last.h) =>
            /\ last'.val = SeekTarget(seekType, last.n, GetLength(ViewOfLast))
            /\ last'.carry = 0

\* C4: on a pack entry with window (startOffset, length), Seek(p, HEAD) and
\* then Tell gives p, Seek(p, TAIL) and then Tell gives length + p, for p that
\* stays in the window; the FILE is at startOffset + p and at
\* startOffset + length + p.
C4_SeekTell ==
    /\ []SeekSetsRawPosition
    /\ [][TellAfterSeek]_vars

\* C4 witness: a Seek from the tail to inside a window that does not start at
\* the start of the pack.
C4_Witness ==
    /\ SeekInWindow(SEEK_TAIL)
    /\ last.n < 0
    /\ GetLength(ViewOfLast) > 1
    /\ GetStartOffset(ViewOfLast) > 0

\* C5: EndOfFile on a pack entry is true exactly when the relative cursor,
\* the position of the FILE less startOffset, has reached length.
C5_EndOfFileAtLength ==
    OnView("EndOfFile") =>
        (last.ok <=> RawPosOfLast - GetStartOffset(ViewOfLast) >= GetLength(ViewOfLast))

\* C5 witness: EndOfFile answers true with the cursor exactly at length, and
\* the pack goes on behind the window.
C5_Witness ==
    /\ OnView("EndOfFile")
    /\ last.ok
    /\ GetLength(ViewOfLast) > 0
    /\ RawPosOfLast = GetStartOffset(ViewOfLast) + GetLength(ViewOfLast)
    /\ RawPosOfLast < streams[GetFile(ViewOfLast)].size

-----------------------------------------------------------------------------
(* The registry (C6, C7) *)

\* C6: an add with the empty path string returns false (and so, by the code
\* of the add, leaves the registry as it was).
C6_EmptyPathRejected ==
    (last.op \in AddOps /\ last.str = << >>) => ~last.ok

\* C7: no two registered search paths have the same location, compared
\* without case, and the same pathID.
C7_NoDuplicateSearchPaths ==
    \A i, j \in DOMAIN m_SearchPaths :
        (/\ i # j
         /\ stricmp_eq(m_SearchPaths[i].szPath, m_SearchPaths[j].szPath))
        => m_SearchPaths[i].pszPathID # m_SearchPaths[j].pszPathID

-----------------------------------------------------------------------------
(* Closing (C8) *)

Tables == <<m_SearchPaths, m_OpenedFiles, m_FindFiles, streams, disk>>

\* C8: a Close that repeats the Close before it, on the same handle, and a
\* FindClose that repeats the FindClose before it, on the same cursor, change
\* nothing: the open-handle table, the find-cursor table and the registry are
\* as they were.
C8_SecondCloseChangesNothing ==
    [][ /\ (last.op = "Close" /\ last'.op = "Close" /\ last'.h = last.h)
            => Tables' = Tables
        /\ (last.op = "FindClose" /\ last'.op = "FindClose" /\ last'.h = last.h)
            => Tables' = Tables ]_vars

\* C8 witness: the second Close of a handle that the first one took out of a
\* table that holds another handle still.
C8_Witness ==
    /\ last.op = "Close"
    /\ last.n = 1
    /\ last.h # FILESYSTEM_INVALID_HANDLE
    /\ m_OpenedFiles # << >>
    /\ m_FindFiles # << >>

-----------------------------------------------------------------------------
(* Find cursors (C9, C10) *)

ClosedValid ==
    /\ last.op = "FindClose"
    /\ last.h >= 0 /\ last.h < Len(last.before)
    /\ VALID \in last.before[last.h + 1].flags

\* C9: FindClose on a cursor that is not the last slot only clears its VALID
\* flag; FindClose on the last slot removes it, and the table is then empty or
\* ends in a VALID cursor.
C9_FindCloseReclaims ==
    ClosedValid =>
        IF last.h < Len(last.before) - 1
        THEN m_FindFiles = [last.before EXCEPT ![last.h + 1].flags = @ \ {VALID}]
        ELSE /\ Len(m_FindFiles) < Len(last.before)
             /\ m_FindFiles = SubSeq(last.before, 1, Len(m_FindFiles))
             /\ (m_FindFiles = << >> \/ VALID \in m_FindFiles[Len(m_FindFiles)].flags)

\* A FindNext that came back, on a cursor whose walk of search path c was done.
NextAfterWalk ==
    /\ last.op = "FindNext"
    /\ last.how = "return"
    /\ last.h >= 0 /\ last.h < Len(last.before)
    /\ END_OF_DATA \notin last.before[last.h + 1].flags
    /\ last.before[last.h + 1].currentPath # 0
    /\ last.before[last.h + 1].iterator = << >>

\* C10: when the walk of the current search path is done, the next walk of
\* the cursor is rooted at a later search path that passes its filter, and
\* when there is none the cursor is marked END_OF_DATA.
C10_FindNextAdvances ==
    NextAfterWalk =>
        \/ END_OF_DATA \in m_FindFiles[last.h + 1].flags
        \/ m_FindFiles[last.h + 1].currentPath > last.before[last.h + 1].currentPath

-----------------------------------------------------------------------------
(* Find cursors: termination and the first advance (C11, C12) *)

\* C11: every FindFirst and FindNext call comes back: the loop of FindNext
\* terminates, also over search paths that are empty or hold no match.
C11_FindReturns ==
    last.op \in {"FindFirst", "FindNext"} => last.how # "hang"

\* C12: a FindFirst that finds nothing returns the null name and the invalid
\* find handle, and the find-cursor table is as it was before the call.
C12_FindFirstDiscards ==
    (/\ last.op = "FindFirst"
     /\ last.str # NullStr
     /\ last.how = "return"
     /\ last.name = NullStr) =>
        /\ last.h = FILESYSTEM_INVALID_FIND_HANDLE
        /\ m_FindFiles = last.before

-----------------------------------------------------------------------------
(* Wildcards (C13) *)

\* What FindFirst and FindNext make of a wildcard and a file name: the filter
\* FindFirst compiles, matched by FindNext against the name.
WildCardMatches(pWildCard, szFileName) ==
    regex_match(szFileName, make_preferred(ReplaceStars(pWildCard)))

\* The match of one file name against the filter of one wildcard, as the loop
\* of FindNext performs it on every entry of a walk.
MatchFileName(pWildCard, szFileName) ==
    /\ last' = [NoCall EXCEPT !.op = "MatchFileName", !.str = pWildCard,
                              !.name = szFileName,
                              !.ok = WildCardMatches(pWildCard, szFileName)]
    /\ UNCHANGED <<preferred_separator, m_SearchPaths, m_OpenedFiles, m_FindFiles,
                   streams, disk>>

MatchMaxLen == 3

\* The strings of at most MatchMaxLen characters of an alphabet.
StringsOver(alphabet) ==
    UNION { [1..n -> alphabet] : n \in 0..MatchMaxLen }

MatchWildCards == StringsOver({"a", "t", ".", "*"})
MatchFileNames == StringsOver({"a", "t", "."})

InitMatch == InitWith({"/"})

\* One match per behaviour: the result depends on the two strings only.
NextMatch ==
    /\ last = NoCall
    /\ \E pWildCard \in MatchWildCards, szFileName \in MatchFileNames :
            MatchFileName(pWildCard, szFileName)

SpecMatch == InitMatch /\ [][NextMatch]_vars

\* The strings a wildcard stands for: each '*' is any sequence of characters,
\* the empty one too, and every other character is itself.
RECURSIVE GlobMatch(_, _)
GlobMatch(pattern, s) ==
    IF pattern = << >> THEN s = << >>
    ELSE IF Head(pattern) = "*"
         THEN \/ GlobMatch(Tail(pattern), s)
              \/ (s # << >> /\ GlobMatch(pattern, Tail(s)))
    ELSE s # << >> /\ Head(s) = Head(pattern) /\ GlobMatch(Tail(pattern), Tail(s))

\* C13: the pattern FindFirst compiles matches a string exactly when the
\* string is the wildcard with each '*' replaced by some sequence of
\* characters, every other character, '.' too, matching only itself.
C13_WildCardIsGlob ==
    last.op = "MatchFileName" => (last.ok <=> GlobMatch(last.str, last.name))

-----------------------------------------------------------------------------
(* Pack directories (C14) *)

\* ProcessPackFile<PackType>( fileSystem, pszFileName, pFile, entries ) on a
\* FILE that stands at the start of the pack.
ParsePackFile(image) ==
    LET r == ProcessPackFile(image)
    IN  /\ last' = [NoCall EXCEPT !.op = "ProcessPackFile", !.k = image.ident,
                                  !.before = image.dir, !.ok = r.ok,
                                  !.val = r.pos, !.entries = r.entries]
        /\ UNCHANGED <<preferred_separator, m_SearchPaths, m_OpenedFiles,
                       m_FindFiles, streams, disk>>

ParseMaxRecords == 3

ParseRecords ==
    [szFileName : {Str1("x"), Str1("y")}, filepos : {1, 2}, filelen : {1, 2}]

ParseDirs == UNION { [1..n -> ParseRecords] : n \in 0..ParseMaxRecords }

\* A well-formed pack with the directory `dir` behind three units of header
\* and data.
ValidImage(ident, dir) ==
    [ident |-> ident, size |-> 3 + Len(dir) * SizeofEntry(ident), dirofs |-> 3,
     dirlen |-> Len(dir) * SizeofEntry(ident), dir |-> dir]

InitParse == InitWith({"/"})

\* One parse per behaviour: the result depends on the pack only.
NextParse ==
    /\ last = NoCall
    /\ \E ident \in {"PACK_32BIT", "PACK_64BIT"}, dir \in ParseDirs :
            ParsePackFile(ValidImage(ident, dir))

SpecParse == InitParse /\ [][NextParse]_vars

\* The names of a directory.
NamesOf(dir) == {dir[i].szFileName : i \in DOMAIN dir}

\* C14: the entries ProcessPackFile leaves hold, for every name of the
\* directory, the offset and length of the last record of that name, and
\* nothing else: one entry per name.
C14_LastRecordWins ==
    (last.op = "ProcessPackFile" /\ last.ok) =>
        /\ \A i \in DOMAIN last.before :
            (\A j \in DOMAIN last.before :
                j > i => last.before[j].szFileName # last.before[i].szFileName)
            => \E e \in DOMAIN last.entries :
                    /\ last.entries[e].szFileName = last.before[i].szFileName
                    /\ last.entries[e].startOffset = last.before[i].filepos
                    /\ last.entries[e].length = last.before[i].filelen
        /\ Len(last.entries) = Cardinality(NamesOf(last.before))

-----------------------------------------------------------------------------
(* Mounting packs, sound and corrupt (C15) *)

PackMaxPaths == 2

\* Files AddPackFile is called with: the two packs, the four corrupt ones, a
\* file that is no pack, a file that does not exist, and the null pointer.
CorruptPacks == {Str1("u"), Str1("v"), Str1("w"), Str1("y")}
PackFullPaths ==
    {NullStr, Str1("p"), Str1("q"), <<"a", "/">> \o FileMT, Str1("n")}
        \cup CorruptPacks

InitPack ==
    /\ preferred_separator = "/"
    /\ m_SearchPaths = << >>
    /\ m_OpenedFiles = << >>
    /\ m_FindFiles = << >>
    /\ streams = [i \in StreamIds |-> ClosedStream]
    /\ disk = InitialDisk \cup CorruptPacks
    /\ last = NoCall

NextPack ==
    \/ \E fullpath \in PackFullPaths, pathID \in PathIDs :
            AddPackFile(PackMaxPaths, fullpath, pathID)
    \/ \E pathID \in PathIDs : AddSearchPath(PackMaxPaths, Str1("a"), pathID)
    \/ \E pPath \in {Str1("a"), Str1("p")} : RemoveSearchPath(pPath)
    \/ RemoveAllSearchPaths

SpecPack == InitPack /\ [][NextPack]_vars

\* The file cannot be opened, is no recognised pack, has a directory length
\* that is no multiple of the record size, has more records than the kind
\* allows, or a directory that cannot be read in full.
Unmountable(fullpath, d) ==
    LET image == PackImage(OsName(fullpath))
    IN  \/ fullpath = NullStr
        \/ OsName(fullpath) \notin d
        \/ image.ident = "NOT_A_PACK"
        \/ image.dirlen % SizeofEntry(image.ident) # 0
        \/ image.dirlen \div SizeofEntry(image.ident) > MAX_FILES(image.ident)
        \/ image.dirofs + image.dirlen > image.size
        \/ Len(image.dir) < image.dirlen \div SizeofEntry(image.ident)

AddPackFileFails ==
    (last'.op = "AddPackFile" /\ ~last'.ok) => m_SearchPaths' = m_SearchPaths

AddPackFileAppends ==
    (last'.op = "AddPackFile" /\ last'.ok) =>
        /\ Len(m_SearchPaths') = Len(m_SearchPaths) + 1
        /\ SubSeq(m_SearchPaths', 1, Len(m_SearchPaths)) = m_SearchPaths
        /\ m_SearchPaths'[Len(m_SearchPaths')].flags = {READ_ONLY, IS_PACK_FILE}

AddPackFileFailsWhen ==
    last'.op = "AddPackFile" => (last'.ok <=> ~Unmountable(last'.str, disk))

\* C15: AddPackFile returns false for a file that cannot be opened, is no
\* pack or has a corrupt directory, and then the registry is as before the
\* call; only a parse that succeeds appends one search path, flagged
\* READ_ONLY and IS_PACK_FILE.
C15_AddPackFileAllOrNothing ==
    [][AddPackFileFails /\ AddPackFileAppends /\ AddPackFileFailsWhen]_vars

\* C15 witness: a pack with a corrupt directory was refused by a registry that
\* holds a pack already.
C15_Witness ==
    /\ last.op = "AddPackFile"
    /\ ~last.ok
    /\ last.str \in {Str1("u"), Str1("v"), Str1("w")}
    /\ \E i \in DOMAIN m_SearchPaths : IS_PACK_FILE \in m_SearchPaths[i].flags

-----------------------------------------------------------------------------
(* Queries by name (C16) *)

\* fs::exists( path, error ): a regular file or a directory of that name.
fs_exists(d, path) ==
    \/ OsName(path) \in d
    \/ OsName(path) \in HostDirs
    \/ OsName(path) \o <<"/">> \in d

\* The loop of FileExists and of GetFileTime: the index of the first search
\* path under which the name exists, 0 when the loop ran out.
RECURSIVE ExistsFrom(_, _, _, _)
ExistsFrom(paths, it, d, pFileName) ==
    IF it > Len(paths) THEN 0
    ELSE IF fs_exists(d, PathAppend(paths[it].szPath, pFileName)) THEN it
    ELSE ExistsFrom(paths, it + 1, d, pFileName)

\* fs::last_write_time of the files of the host: a time of its own for each.
FileTimeOf(osname) ==
    IF osname \in HostFiles
    THEN CHOOSE i \in DOMAIN HostFileOrder : HostFileOrder[i] = osname
    ELSE Len(HostFileOrder) + 1

\* CFileSystem::FileExists( pFileName )
FileExistsResult(paths, d, pFileName) ==
    IF pFileName = NullStr THEN FALSE
    ELSE ExistsFrom(paths, 1, d, pFileName) # 0

\* CFileSystem::GetFileTime( pFileName )
GetFileTimeResult(paths, d, pFileName) ==
    LET it == ExistsFrom(paths, 1, d, pFileName)
    IN  IF it = 0 THEN 0
        ELSE FileTimeOf(OsName(PathAppend(paths[it].szPath, pFileName)))

\* CFileSystem::Size( pFileName ): fs::file_size of the name as given, which
\* the host resolves against the working directory; its error value is
\* static_cast<uintmax_t>( -1 ).
SizeByNameResult(d, pFileName) ==
    IF pFileName = NullStr THEN UnsignedCast(0)
    ELSE IF OsName(pFileName) \in d THEN UnsignedCast(FileSizeOf(OsName(pFileName)))
    ELSE UnsignedCast(0 - 1)

FileExists(pFileName) ==
    /\ Running
    /\ last' = [NoCall EXCEPT !.op = "FileExists", !.str = pFileName,
                              !.ok = FileExistsResult(m_SearchPaths, disk, pFileName)]
    /\ UNCHANGED <<preferred_separator, m_SearchPaths, m_OpenedFiles, m_FindFiles,
                   streams, disk>>

GetFileTime(pFileName) ==
    /\ Running
    /\ last' = [NoCall EXCEPT !.op = "GetFileTime", !.str = pFileName,
                              !.val = GetFileTimeResult(m_SearchPaths, disk, pFileName)]
    /\ UNCHANGED <<preferred_separator, m_SearchPaths, m_OpenedFiles, m_FindFiles,
                   streams, disk>>

SizeByName(pFileName) ==
    LET r == SizeByNameResult(disk, pFileName)
    IN  /\ Running
        /\ last' = [NoCall EXCEPT !.op = "Size", !.str = pFileName,
                                  !.val = r.val, !.carry = r.carry]
        /\ UNCHANGED <<preferred_separator, m_SearchPaths, m_OpenedFiles,
                       m_FindFiles, streams, disk>>

ScanMaxPaths == 2

ScanDirs == {Str1("a"), Str1("b"), Str1("e")}
ScanNames == {FileMT, FileNL, Str1("p"), Str1("s")}

InitScan == InitWith({"/"})

NextScan ==
    \/ \E pPath \in ScanDirs, pathID \in PathIDs :
            AddSearchPath(ScanMaxPaths, pPath, pathID)
    \/ \E pPath \in ScanDirs : RemoveSearchPath(pPath)
    \/ \E pFileName \in ScanNames \cup {NullStr} : FileExists(pFileName)
    \/ \E pFileName \in ScanNames : GetFileTime(pFileName)
    \/ \E pFileName \in ScanNames \cup {NullStr} : SizeByName(pFileName)

SpecScan == InitScan /\ [][NextScan]_vars

\* C16: Size by name returns the size of location/fileName of the first
\* search path under which the file exists, the one whose file GetFileTime
\* gives the time of.
C16_SizeScansRegistry ==
    LET it == ExistsFrom(m_SearchPaths, 1, disk, last.str)
    IN  (/\ last.op = "Size" /\ last.str # NullStr /\ it # 0
         /\ OsName(PathAppend(m_SearchPaths[it].szPath, last.str)) \in disk) =>
            /\ last.carry = 0
            /\ last.val = FileSizeOf(OsName(PathAppend(m_SearchPaths[it].szPath,
                                                       last.str)))

-----------------------------------------------------------------------------
(* The other operations on a file handle *)

\* CFileSystem::Size( file )
Size(file) ==
    /\ Running
    /\ IF file = FILESYSTEM_INVALID_HANDLE
       THEN last' = NullHandleCall("Size")
       ELSE /\ IsOpenHandle(file)
            /\ last' = [NoCall EXCEPT !.op = "Size", !.h = file,
                                      !.val = GetLength(HandleAt(file))]
    /\ UNCHANGED <<preferred_separator, m_SearchPaths, m_OpenedFiles, m_FindFiles,
                   streams, disk>>

\* ferror( file ) == 0
ferrorClear(st, file) == ~st[file].err

\* CFileSystem::IsOk( file )
IsOk(file) ==
    /\ Running
    /\ IF file = FILESYSTEM_INVALID_HANDLE
       THEN last' = NullHandleCall("IsOk")
       ELSE /\ IsOpenHandle(file)
            /\ last' = [NoCall EXCEPT !.op = "IsOk", !.h = file,
                                      !.ok = ferrorClear(streams,
                                                         GetFile(HandleAt(file)))]
    /\ UNCHANGED <<preferred_separator, m_SearchPaths, m_OpenedFiles, m_FindFiles,
                   streams, disk>>

\* CFileSystem::Flush( file ): fflush has nothing to write on a FILE that
\* was opened for reading.
Flush(file) ==
    /\ Running
    /\ IF file = FILESYSTEM_INVALID_HANDLE
       THEN last' = NullHandleCall("Flush")
       ELSE /\ IsOpenHandle(file)
            /\ IsPackEntry(HandleAt(file))
            /\ last' = [NoCall EXCEPT !.op = "Flush", !.h = file]
    /\ UNCHANGED <<preferred_separator, m_SearchPaths, m_OpenedFiles, m_FindFiles,
                   streams, disk>>

\* fwrite and vfprintf on a FILE that was opened for reading: nothing is
\* written and the error indicator of the FILE is set.
WriteFails(st, file) == [st EXCEPT ![file].err = TRUE]

\* CFileSystem::Write( pInput, size, file ) on the null handle and on an open
\* pack entry, whose FILE AddPackFile opened with "rb".
Write(file, size) ==
    /\ Running
    /\ IF file = FILESYSTEM_INVALID_HANDLE
       THEN /\ streams' = streams
            /\ last' = [NullHandleCall("Write") EXCEPT !.n = size]
       ELSE /\ IsOpenHandle(file)
            /\ IsPackEntry(HandleAt(file))
            /\ streams' = IF size > 0
                          THEN WriteFails(streams, GetFile(HandleAt(file)))
                          ELSE streams
            /\ last' = [NoCall EXCEPT !.op = "Write", !.h = file, !.n = size]
    /\ UNCHANGED <<preferred_separator, m_SearchPaths, m_OpenedFiles, m_FindFiles,
                   disk>>

\* CFileSystem::FPrintf( file, pFormat, ... ) on the null handle and on an
\* open pack entry: vfprintf of a format that prints something returns a
\* negative value.
FPrintf(file) ==
    /\ Running
    /\ IF file = FILESYSTEM_INVALID_HANDLE
       THEN /\ streams' = streams
            /\ last' = NullHandleCall("FPrintf")
       ELSE /\ IsOpenHandle(file)
            /\ IsPackEntry(HandleAt(file))
            /\ streams' = WriteFails(streams, GetFile(HandleAt(file)))
            /\ last' = [NoCall EXCEPT !.op = "FPrintf", !.h = file, !.val = 0 - 1]
    /\ UNCHANGED <<preferred_separator, m_SearchPaths, m_OpenedFiles, m_FindFiles,
                   disk>>

\* CFileSystem::SetVBuf( stream, buffer, mode, size ) on the null handle and
\* on an open pack entry.  setvbuf on a FILE that has been read or positioned
\* is not defined: it returns 0 or not, and the position stays.
SetVBuf(file) ==
    /\ Running
    /\ IF file = FILESYSTEM_INVALID_HANDLE
       THEN last' = NullHandleCall("SetVBuf")
       ELSE /\ IsOpenHandle(file)
            /\ IsPackEntry(HandleAt(file))
            /\ \E result \in {0, 0 - 1} :
                 last' = [NoCall EXCEPT !.op = "SetVBuf", !.h = file, !.val = result]
    /\ UNCHANGED <<preferred_separator, m_SearchPaths, m_OpenedFiles, m_FindFiles,
                   streams, disk>>

\* fgets( buf, maxChars, file ): the numbers of characters it can take, which
\* is where the first newline is, at most maxChars - 1 and at most what the
\* FILE has left.  None when there is nothing to take.
fgetsCounts(st, file, maxChars) ==
    1..Min(maxChars - 1, Max(0, st[file].size - st[file].pos))

\* The maxChars that ReadLine hands to fgets for a pack entry.
ReadLineClip(relativePos, maxChars, length) ==
    IF relativePos + maxChars >= length + 1
    THEN (length + 1) - relativePos
    ELSE maxChars

\* Whether ReadLine on a pack entry returns nullptr before it reads.
ReadLineRefuses(st, fh, wraps) ==
    LET relativePos == ftell(st, GetFile(fh)) - GetStartOffset(fh)
    IN  \/ GetLength(fh) = 0
        \/ relativePos >= GetLength(fh)
        \/ (relativePos < 0 /\ wraps)

\* CFileSystem::ReadLine( pOutput, maxChars, file ) on the null handle and on
\* an open pack entry.  ok says that the buffer was returned, val is the
\* number of characters taken and p the position in the window before.
ReadLine(file, maxChars) ==
    /\ Running
    /\ IF file = FILESYSTEM_INVALID_HANDLE
       THEN /\ streams' = streams
            /\ last' = [NullHandleCall("ReadLine") EXCEPT !.n = maxChars]
       ELSE /\ IsOpenHandle(file)
            /\ IsPackEntry(HandleAt(file))
            /\ \E wraps \in BOOLEAN :
                LET fh          == HandleAt(file)
                    relativePos == ftell(streams, GetFile(fh)) - GetStartOffset(fh)
                    called      == [NoCall EXCEPT !.op = "ReadLine", !.h = file,
                                                  !.n = maxChars, !.p = relativePos]
                    clipped     == ReadLineClip(relativePos, maxChars, GetLength(fh))
                    counts      == fgetsCounts(streams, GetFile(fh), clipped)
                IN  IF ReadLineRefuses(streams, fh, wraps) \/ counts = {}
                    THEN /\ streams' = streams
                         /\ last' = [called EXCEPT !.ok = clipped = 1
                                                   /\ ~ReadLineRefuses(streams, fh, wraps)]
                    ELSE \E count \in counts :
                            /\ streams' = fread(streams, GetFile(fh), count).streams
                            /\ last' = [called EXCEPT !.ok = TRUE, !.val = count]
    /\ UNCHANGED <<preferred_separator, m_SearchPaths, m_OpenedFiles, m_FindFiles,
                   disk>>

\* One handle at most, over one mounted pack.
HandlesMaxFiles == 1
HandleArgs == {FILESYSTEM_INVALID_HANDLE} \cup HandleAddrs(HandlesMaxFiles)
HandlePositions == (0 - 2)..3
LineSizes == 0..4

NextHandles ==
    \/ \E pFileName \in ViewNames :
            OpenFromCacheForRead(HandlesMaxFiles, pFileName, Str1("r"), NullID)
    \/ \E file \in HandleArgs : Close(file)
    \/ \E file \in HandleArgs, pos \in HandlePositions, seekType \in SeekTypes :
            Seek(MaxStreamPos, file, pos, seekType)
    \/ \E file \in HandleArgs : Tell(file)
    \/ \E file \in HandleArgs : Size(file)
    \/ \E file \in HandleArgs : IsOk(file)
    \/ \E file \in HandleArgs : Flush(file)
    \/ \E file \in HandleArgs : EndOfFile(file)
    \/ \E file \in HandleArgs, size \in ReadSizes : Read(file, size)
    \/ \E file \in HandleArgs, size \in 0..1 : Write(file, size)
    \/ \E file \in HandleArgs, maxChars \in LineSizes : ReadLine(file, maxChars)
    \/ \E file \in HandleArgs : FPrintf(file)
    \/ \E file \in HandleArgs : SetVBuf(file)

SpecHandles == InitView /\ [][NextHandles]_vars

FileHandleOps ==
    {"Close", "Seek", "Tell", "Size", "IsOk", "Flush", "EndOfFile", "Read", "Write",
     "ReadLine", "FPrintf", "SetVBuf"}

\* C17: a file-handle operation that is called with the null handle gives a
\* Warning at FILESYSTEM_WARNING_CRITICAL, returns 0, false or nullptr, and
\* leaves m_SearchPaths, m_OpenedFiles and every FILE as they were.
C17_NullHandleWarns ==
    [][(last'.op \in FileHandleOps /\ last'.h = FILESYSTEM_INVALID_HANDLE)
         => /\ last'.warn = FILESYSTEM_WARNING_CRITICAL
            /\ last'.val = 0 /\ ~last'.ok
            /\ m_SearchPaths' = m_SearchPaths
            /\ m_OpenedFiles' = m_OpenedFiles
            /\ streams' = streams]_vars

-----------------------------------------------------------------------------
(* The path ID filter *)

\* The loop of CFileSystem::RemoveFile: the index of the search path under
\* which fs::remove removed the file, 0 when the loop ran out.
RECURSIVE RemoveFileFrom(_, _, _, _, _)
RemoveFileFrom(paths, it, d, pRelativePath, pathID) ==
    IF it > Len(paths) THEN 0
    ELSE IF READ_ONLY \in paths[it].flags
         THEN RemoveFileFrom(paths, it + 1, d, pRelativePath, pathID)
    ELSE IF PathIDMismatch(pathID, paths[it])
         THEN RemoveFileFrom(paths, it + 1, d, pRelativePath, pathID)
    ELSE IF OsName(PathAppend(paths[it].szPath, pRelativePath)) \in d
         THEN it
    ELSE RemoveFileFrom(paths, it + 1, d, pRelativePath, pathID)

RemoveFileIndex(paths, d, pRelativePath, pathID) ==
    IF pRelativePath = NullStr THEN 0
    ELSE RemoveFileFrom(paths, 1, d, pRelativePath, pathID)

\* CFileSystem::RemoveFile( pRelativePath, pathID ) of the name of a regular
\* file.  n is the search path the file was removed under.
RemoveFile(pRelativePath, pathID) ==
    LET it == RemoveFileIndex(m_SearchPaths, disk, pRelativePath, pathID)
    IN  /\ Running
        /\ disk' = IF it = 0 THEN disk
                   ELSE disk \ {OsName(PathAppend(m_SearchPaths[it].szPath,
                                                  pRelativePath))}
        /\ last' = [NoCall EXCEPT !.op = "RemoveFile", !.str = pRelativePath,
                                  !.id = pathID, !.n = it]
        /\ UNCHANGED <<preferred_separator, m_SearchPaths, m_OpenedFiles, m_FindFiles,
                       streams>>

FilterMaxPaths == 2
FilterMaxFiles == 1
FilterMaxFinds == 1

\* The filters of the calls: none, the empty string and a path ID.
FilterIDs == {NullID, "", "GAME"}
FilterDirs == {Str1("a"), Str1("b")}

InitFilter == InitWith({"/"})

NextFilter ==
    \/ \E pPath \in FilterDirs, pathID \in PathIDs :
            AddSearchPath(FilterMaxPaths, pPath, pathID)
    \/ \E pathID \in PathIDs : AddPackFile(FilterMaxPaths, Str1("p"), pathID)
    \/ \E pathID \in FilterIDs : Open(FilterMaxFiles, FileMT, Str1("r"), pathID)
    \/ \E pathID \in FilterIDs :
            OpenFromCacheForRead(FilterMaxFiles, Str1("b"), Str1("r"), pathID)
    \/ \E pathID \in FilterIDs : RemoveFile(FileMT, pathID)
    \/ \E pathID \in FilterIDs : FindFirst(FilterMaxFinds, Str1("*"), pathID)
    \/ \E handle \in 0..(FilterMaxFinds - 1) : FindNext(handle)

SpecFilter == InitFilter /\ [][NextFilter]_vars

\* The search path the cursor of the last FindFirst or FindNext stands on, 0
\* when the call found no file.
FoundPath ==
    IF /\ last.op \in {"FindFirst", "FindNext"}
       /\ last.how = "return"
       /\ last.name # NullStr
       /\ last.h >= 0 /\ last.h < Len(m_FindFiles)
    THEN m_FindFiles[last.h + 1].currentPath
    ELSE 0

\* C18: a call of Open, OpenFromCacheForRead, RemoveFile or FindFirst that is
\* given a pathID selects only a search path whose path ID is set and equal
\* to it, and FindNext stays with the path ID of its FindFirst.
C18_FilterSelectsTagged ==
    /\ (/\ last.op \in {"Open", "OpenFromCacheForRead", "RemoveFile"}
        /\ last.id # NullID
        /\ last.n # 0)
          => m_SearchPaths[last.n].pszPathID = last.id
    /\ (last.op = "FindFirst" /\ last.id # NullID /\ FoundPath # 0)
          => m_SearchPaths[FoundPath].pszPathID = last.id
    /\ (last.op = "FindNext" /\ FoundPath # 0
          /\ m_FindFiles[last.h + 1].szPathID # "")
          => m_SearchPaths[FoundPath].pszPathID = m_FindFiles[last.h + 1].szPathID

-----------------------------------------------------------------------------
(* Creating directories *)

\* A directory that was created is kept in `disk` under its name with a
\* separator at the end, next to the regular files.
DirEntry(name) == name \o <<"/">>

is_directory(d, name) == name \in HostDirs \/ DirEntry(name) \in d

\* The path itself and every directory above it.
PathPrefixes(name) ==
    { SubSeq(name, 1, k) : k \in { j \in 1..Len(name) :
                                     /\ name[j] # "/"
                                     /\ (j = Len(name) \/ name[j + 1] = "/") } }

\* fs::create_directories( directories, error ): the disk afterwards.  Every
\* directory of the path that is missing is made, unless a regular file
\* stands where a directory has to be: then the call fails with nothing made.
create_directories(d, directories) ==
    LET prefixes == PathPrefixes(OsName(directories))
    IN  IF \E x \in prefixes : x \in d THEN d
        ELSE d \cup {DirEntry(x) : x \in {y \in prefixes : ~is_directory(d, y)}}

\* The second loop of CreateDirHierarchy: the first search path that is not
\* READ_ONLY, 0 when there is none.
RECURSIVE CreateDirFallback(_, _)
CreateDirFallback(paths, it) ==
    IF it > Len(paths) THEN 0
    ELSE IF READ_ONLY \in paths[it].flags THEN CreateDirFallback(paths, it + 1)
    ELSE it

\* The first loop of CreateDirHierarchy: the first search path that is not
\* READ_ONLY and passes the filter, 0 when there is none.
RECURSIVE CreateDirFrom(_, _, _)
CreateDirFrom(paths, it, pathID) ==
    IF it > Len(paths) THEN 0
    ELSE IF READ_ONLY \in paths[it].flags THEN CreateDirFrom(paths, it + 1, pathID)
    ELSE IF PathIDMismatch(pathID, paths[it])
         THEN CreateDirFrom(paths, it + 1, pathID)
    ELSE it

\* A CreateDirHierarchy without the second loop.
CreateDirIndexNoFallback(paths, pathID) == CreateDirFrom(paths, 1, pathID)

\* The search path CreateDirHierarchy creates the directories under, 0 when
\* it creates none.
CreateDirIndex(paths, pathID) ==
    IF CreateDirFrom(paths, 1, pathID) # 0 THEN CreateDirFrom(paths, 1, pathID)
    ELSE IF pathID # NullID THEN CreateDirFallback(paths, 1)
    ELSE 0

\* CFileSystem::CreateDirHierarchy( path, pathID ).  n is the search path the
\* directories were created under.
CreateDirHierarchy(path, pathID) ==
    LET it == IF path = NullStr THEN 0 ELSE CreateDirIndex(m_SearchPaths, pathID)
    IN  /\ Running
        /\ disk' = IF it = 0 THEN disk
                   ELSE create_directories(disk,
                                           PathAppend(m_SearchPaths[it].szPath, path))
        /\ last' = [NoCall EXCEPT !.op = "CreateDirHierarchy", !.str = path,
                                  !.id = pathID, !.n = it]
        /\ UNCHANGED <<preferred_separator, m_SearchPaths, m_OpenedFiles, m_FindFiles,
                       streams>>

CreateMaxPaths == 2

CreateDirs == {Str1("a"), Str1("b")}

\* The directories to create: one level, two levels, a name that a regular
\* file of "a" and of "b" has, and the null pointer.
CreatePaths == {NullStr, Str1("x"), Str3("x", "/", "y"), FileMT}

InitCreate == InitWith({"/"})

NextCreate ==
    \/ \E pPath \in CreateDirs, pathID \in PathIDs :
            AddSearchPath(CreateMaxPaths, pPath, pathID)
    \/ \E pPath \in CreateDirs, pathID \in PathIDs :
            AddSearchPathNoWrite(CreateMaxPaths, pPath, pathID)
    \/ \E pathID \in PathIDs : AddPackFile(CreateMaxPaths, Str1("p"), pathID)
    \/ \E path \in CreatePaths, pathID \in PathIDs : CreateDirHierarchy(path, pathID)

SpecCreate == InitCreate /\ [][NextCreate]_vars

\* The search paths that are not READ_ONLY, and those of them that pass the
\* filter.
Writable(paths) == {i \in DOMAIN paths : READ_ONLY \notin paths[i].flags}

WritableMatching(paths, pathID) ==
    {i \in Writable(paths) :
        pathID = NullID \/ (paths[i].pszPathID # NullID /\ paths[i].pszPathID = pathID)}

First(S) == CHOOSE i \in S : \A j \in S : i <= j

\* The search path the directories are expected under, 0 for none.
CreateTarget(paths, pathID) ==
    IF WritableMatching(paths, pathID) # {} THEN First(WritableMatching(paths, pathID))
    ELSE IF pathID # NullID /\ Writable(paths) # {} THEN First(Writable(paths))
    ELSE 0

\* What C19 asks of one call: paths and d are m_SearchPaths and disk before
\* it, paths2 and d2 after it.
CreatedUnderTarget(paths, paths2, d, d2, call) ==
    LET target  == CreateTarget(paths, call.id)
        created == d2 \ d
        wanted  == OsName(PathAppend(paths[target].szPath, call.str))
    IN  /\ paths2 = paths
        /\ d \subseteq d2
        /\ call.n = target
        /\ target = 0 => created = {}
        /\ target # 0 =>
             /\ READ_ONLY \notin paths[target].flags
             /\ \A c \in created : IsUnder(c, OsName(paths[target].szPath))
             /\ (\A x \in PathPrefixes(wanted) : x \notin d)
                    => DirEntry(wanted) \in d2

\* C19: CreateDirHierarchy( path, pathID ) creates the directories of path
\* under one search path, the first that is not READ_ONLY and passes the
\* filter, or, when a pathID was given and there is none, the first that is
\* not READ_ONLY; with no such search path it creates nothing.  The search
\* path it creates under is never READ_ONLY, and m_SearchPaths stays as it is.
C19_CreateDirHierarchyTarget ==
    [][last'.op = "CreateDirHierarchy" /\ last'.str # NullStr
         => CreatedUnderTarget(m_SearchPaths, m_SearchPaths', disk, disk', last')]_vars

\* C19 witness: a pathID was given, no writable search path has it, and the
\* directories were created under the first writable search path, which
\* stands behind a READ_ONLY one that has the pathID.
C19_Witness ==
    /\ last.op = "CreateDirHierarchy"
    /\ last.id = "GAME"
    /\ last.n = 2
    /\ READ_ONLY \in m_SearchPaths[1].flags
    /\ m_SearchPaths[1].pszPathID = "GAME"
    /\ m_SearchPaths[2].pszPathID = NullID
    /\ DirEntry(OsName(PathAppend(m_SearchPaths[2].szPath, last.str))) \in disk

-----------------------------------------------------------------------------
(* Two views into one pack *)

SharedMaxFiles == 2

SharedNames == {EntrySA, Str1("b")}

NextShared ==
    \/ \E pFileName \in SharedNames :
            OpenFromCacheForRead(SharedMaxFiles, pFileName, Str1("r"), NullID)
    \/ \E file \in HandleAddrs(SharedMaxFiles), pos \in HandlePositions,
          seekType \in SeekTypes :
            Seek(MaxStreamPos, file, pos, seekType)
    \/ \E file \in HandleAddrs(SharedMaxFiles) : Tell(file)
    \/ \E file \in HandleAddrs(SharedMaxFiles) : EndOfFile(file)
    \/ \E file \in HandleAddrs(SharedMaxFiles), size \in ReadSizes : Read(file, size)
    \/ \E file \in HandleAddrs(SharedMaxFiles), maxChars \in LineSizes :
            ReadLine(file, maxChars)
    \/ \E file \in HandleAddrs(SharedMaxFiles) : Close(file)

SpecShared == InitView /\ [][NextShared]_vars

\* The open views other than `file` into the FILE that `file` is a view into.
OtherViews(files, file) ==
    {i \in DOMAIN files :
        /\ files[i].addr # file
        /\ IsOpen(files[i]) /\ IsPackEntry(files[i])
        /\ \E j \in DOMAIN files :
              /\ files[j].addr = file
              /\ IsPackEntry(files[j])
              /\ GetFile(files[j]) = GetFile(files[i])}

\* What Tell and EndOfFile answer for every other view is the same with the
\* FILEs st and st2.
OtherViewsKeep(files, st, st2, file) ==
    \A i \in OtherViews(files, file) :
        /\ TellResult(st2, files[i]) = TellResult(st, files[i])
        /\ EndOfFilePackEntry(st2, files[i]) = EndOfFilePackEntry(st, files[i])

\* C20: with two views A and B open into one pack, a Seek, Read or ReadLine
\* on A leaves what Tell( B ) and EndOfFile( B ) answer as it was.
C20_IndependentCursors ==
    [][last'.op \in {"Seek", "Read", "ReadLine"}
         => OtherViewsKeep(m_OpenedFiles, streams, streams', last'.h)]_vars

-----------------------------------------------------------------------------
(* The FILE of a pack and the window of a view *)

\* The last call was op on a pack entry whose position in the window was
\* within 0..length before the call.
FromInWindow(op) ==
    /\ OnView(op)
    /\ 0 <= last.p /\ last.p <= GetLength(ViewOfLast)

\* C21: a Read or ReadLine on a pack entry whose position in the window is
\* within 0..length leaves the FILE at or before startOffset + length, so
\* that Tell on the handle is at most length afterwards.
C21_ReadStaysInWindow ==
    (FromInWindow("Read") \/ FromInWindow("ReadLine")) =>
        /\ RawPosOfLast <= GetStartOffset(ViewOfLast) + GetLength(ViewOfLast)
        /\ TellResult(streams, ViewOfLast).carry = 0
        /\ TellResult(streams, ViewOfLast).val <= GetLength(ViewOfLast)

-----------------------------------------------------------------------------
(* Cursors at the end of their data *)

EndMaxPaths == 2
EndMaxFinds == 2

\* The directories mounted here, each with the path ID it is mounted under.
EndMounts == {<<Str1("a"), NullID>>, <<Str1("b"), "GAME">>}

InitEnd == InitWith({"/"})

EndHandles == 0..(EndMaxFinds - 1)

NextEnd ==
    \/ \E m \in EndMounts : AddSearchPath(EndMaxPaths, m[1], m[2])
    \/ \E pathID \in PathIDs : FindFirst(EndMaxFinds, Str1("*"), pathID)
    \/ \E handle \in EndHandles : FindNext(handle)
    \/ \E handle \in EndHandles : FindIsDirectory(handle)
    \/ \E handle \in EndHandles : FindClose(handle)

SpecEnd == InitEnd /\ [][NextEnd]_vars

\* What C22 asks of one call: finds is m_FindFiles before it, finds2 after it.
EndOfDataStays(finds, finds2, call) ==
    \A i \in DOMAIN finds :
        END_OF_DATA \in finds[i].flags =>
            /\ i \in DOMAIN finds2
            /\ END_OF_DATA \in finds2[i].flags
            /\ (call.op = "FindNext" /\ call.h = i - 1)
                  => (call.name = NullStr /\ call.how = "return")
            /\ (call.op = "FindIsDirectory" /\ call.h = i - 1) => ~call.ok

\* C22: a cursor that is marked END_OF_DATA stays marked, whatever is called
\* and whatever search paths are added; FindNext on it returns the null name
\* and FindIsDirectory on it returns false.
C22_EndOfDataIsPermanent ==
    [][EndOfDataStays(m_FindFiles, m_FindFiles', last')]_vars

\* C22 witness: FindNext returned the null name on a cursor marked
\* END_OF_DATA although a search path that passes its filter has been added
\* since.
C22_Witness ==
    /\ last.op = "FindNext"
    /\ last.h >= 0 /\ last.h < Len(m_FindFiles)
    /\ END_OF_DATA \in m_FindFiles[last.h + 1].flags
    /\ NextFindPath(m_FindFiles[last.h + 1], m_SearchPaths, 1) # 0
    /\ last.name = NullStr

-----------------------------------------------------------------------------
(* Views and the search path of their pack *)

LifeMaxPaths == 2
LifeMaxFiles == 2

LifePacks == {Str1("p"), Str1("q")}
LifeHandles == {FILESYSTEM_INVALID_HANDLE} \cup HandleAddrs(LifeMaxFiles)

InitLife == InitWith({"/"})

NextLife ==
    \/ \E fullpath \in LifePacks, pathID \in PathIDs :
            AddPackFile(LifeMaxPaths, fullpath, pathID)
    \/ \E pFileName \in SharedNames, pathID \in PathIDs :
            OpenFromCacheForRead(LifeMaxFiles, pFileName, Str1("r"), pathID)
    \/ \E file \in LifeHandles : Close(file)
    \/ \E pPath \in LifePacks : RemoveSearchPath(pPath)
    \/ RemoveAllSearchPaths

SpecLife == InitLife /\ [][NextLife]_vars

\* The search paths whose pack file is the FILE that the handle fh reads.
PathsOfView(paths, fh) ==
    {i \in DOMAIN paths :
        IS_PACK_FILE \in paths[i].flags /\ paths[i].packFile = GetFile(fh)}

\* C23: every pack entry in m_OpenedFiles reads the FILE of a pack that is in
\* m_SearchPaths, and that FILE is open.
C23_ViewsHaveTheirPack ==
    \A i \in DOMAIN m_OpenedFiles :
        IsPackEntry(m_OpenedFiles[i]) =>
            /\ PathsOfView(m_SearchPaths, m_OpenedFiles[i]) # {}
            /\ streams[GetFile(m_OpenedFiles[i])].open

-----------------------------------------------------------------------------
(* Cursors and the registry *)

CursorMaxPaths == 2
CursorMaxFinds == 1

\* data.currentPath is an iterator into m_SearchPaths, kept here as the
\* position it stands at.  It refers to the search path of the walk as long
\* as that position is in m_SearchPaths and holds the directory that the
\* entries of the walk are under.
WalkIsOf(data, szPath) ==
    /\ data.entry = NoEntry \/ IsUnder(OsName(data.entry.path), OsName(szPath))
    /\ \A k \in DOMAIN data.iterator :
          IsUnder(OsName(data.iterator[k].path), OsName(szPath))

CursorRefers(data, paths) ==
    data.currentPath # 0 =>
        /\ data.currentPath \in DOMAIN paths
        /\ WalkIsOf(data, paths[data.currentPath].szPath)

\* An erase or clear of the search path that a cursor stands on invalidates
\* the iterator of the cursor; what FindNext does with it then is not
\* defined, and no call is followed from there.
IteratorsValid ==
    \A i \in DOMAIN m_FindFiles : CursorRefers(m_FindFiles[i], m_SearchPaths)

InitCursor == InitWith({"/"})

\* The arguments of the calls that are followed: none once an iterator is
\* invalid.
WhileValid(args) == IF IteratorsValid THEN args ELSE {}

NextCursor ==
    \/ \E m \in WhileValid(EndMounts) : AddSearchPath(CursorMaxPaths, m[1], m[2])
    \/ \E pathID \in WhileValid(PathIDs) :
            AddPackFile(CursorMaxPaths, Str1("p"), pathID)
    \/ \E pPath \in WhileValid({Str1("a"), Str1("b"), Str1("p")}) :
            RemoveSearchPath(pPath)
    \/ \E all \in WhileValid({TRUE}) : RemoveAllSearchPaths
    \/ \E pWildCard \in WhileValid({Str1("*"), <<"*", ".", "t">>}), pathID \in PathIDs :
            FindFirst(CursorMaxFinds, pWildCard, pathID)
    \/ \E handle \in WhileValid(0..(CursorMaxFinds - 1)) : FindNext(handle)

SpecCursor == InitCursor /\ [][NextCursor]_vars

\* C24: the currentPath of every cursor that has started a walk stands on a
\* search path that is in m_SearchPaths, and the walk of the cursor is the
\* walk of that search path.
C24_CursorOnRegisteredPath ==
    \A i \in DOMAIN m_FindFiles :
        m_FindFiles[i].currentPath # 0 =>
            /\ m_FindFiles[i].currentPath <= Len(m_SearchPaths)
            /\ WalkIsOf(m_FindFiles[i],
                        m_SearchPaths[m_FindFiles[i].currentPath].szPath)

=============================================================================
